---- MODULE Spec2Model ----
(***************************************************************************)
(* Tag-aware result cache with staleness-driven incremental refresh.       *)
(*                                                                         *)
(* Model of cogs/cache_manager.py (CacheManager) and of the fetch / merge  *)
(* / filter logic of cogs/gelbooru_watcher_base_cog.py                     *)
(* (GelbooruWatcherBaseCog._fetch_posts_logic).                            *)
(*                                                                         *)
(* A Python str is a sequence of one-character strings, so that split,     *)
(* lower, startswith, join, sorted and the substring test are computed,    *)
(* not assumed.  An item (post) is a record [id, tags].  The cache table   *)
(* is the sequence of its rows in rowid order.  Time is observed in whole  *)
(* seconds.                                                                *)
(***************************************************************************)
EXTENDS Integers, Sequences, FiniteSets, TLC

(***************************************************************************)
(* Bounds of the model.  The source pages 10 times (range(10)) with a limit *)
(* of 1000 items; the model keeps the loops and scales the two numbers.    *)
(* MaxQueries bounds the number of calls of _fetch_posts_logic.            *)
(***************************************************************************)
MaxPages == 2
PageLimit == 2
MaxQueries == 1

(***************************************************************************)
(* Program constants.                                                      *)
(***************************************************************************)
cache_ttl == 86400
cache_max_lifetime == 2592000
is_nsfw_site == TRUE

(***************************************************************************)
(* Python str operations.                                                  *)
(***************************************************************************)
Ord(c) ==
  CASE c = " " -> 32 [] c = "-" -> 45 [] c = ":" -> 58
    [] c = "A" -> 65 [] c = "B" -> 66 [] c = "_" -> 95
    [] c = "a" -> 97 [] c = "b" -> 98 [] c = "c" -> 99 [] c = "d" -> 100
    [] c = "e" -> 101 [] c = "f" -> 102 [] c = "g" -> 103 [] c = "i" -> 105
    [] c = "n" -> 110 [] c = "r" -> 114 [] c = "s" -> 115 [] c = "t" -> 116

LowerChar(c) == CASE c = "A" -> "a" [] c = "B" -> "b" [] OTHER -> c

Lower(s) == [i \in 1..Len(s) |-> LowerChar(s[i])]

IsSpace(c) == c = " "

RECURSIVE SplitFrom(_, _, _)
SplitFrom(s, i, cur) ==
  IF i > Len(s)
    THEN (IF cur = <<>> THEN <<>> ELSE <<cur>>)
    ELSE IF IsSpace(s[i])
      THEN (IF cur = <<>> THEN SplitFrom(s, i + 1, <<>>)
                          ELSE <<cur>> \o SplitFrom(s, i + 1, <<>>))
      ELSE SplitFrom(s, i + 1, Append(cur, s[i]))

Split(s) == SplitFrom(s, 1, <<>>)

StartsWith(s, p) == Len(s) >= Len(p) /\ SubSeq(s, 1, Len(p)) = p

Contains(s, sub) ==
  \E i \in 0..(Len(s) - Len(sub)) : SubSeq(s, i + 1, i + Len(sub)) = sub

RECURSIVE StrLess(_, _)
StrLess(a, b) ==
  IF a = <<>> THEN b # <<>>
  ELSE IF b = <<>> THEN FALSE
  ELSE IF Ord(a[1]) # Ord(b[1]) THEN Ord(a[1]) < Ord(b[1])
  ELSE StrLess(Tail(a), Tail(b))

RECURSIVE Sorted(_)
Sorted(S) ==
  IF S = {} THEN <<>>
  ELSE LET m == CHOOSE x \in S : \A y \in S \ {x} : StrLess(x, y)
       IN  <<m>> \o Sorted(S \ {m})

RECURSIVE Join(_)
Join(seq) ==
  IF seq = <<>> THEN <<>>
  ELSE IF Len(seq) = 1 THEN seq[1]
  ELSE seq[1] \o <<" ">> \o Join(Tail(seq))

Range(f) == {f[i] : i \in DOMAIN f}

NEG_AI == <<"-", "a", "i", "_", "g", "e", "n", "e", "r", "a", "t", "e", "d">>
RATING_SAFE == <<"r", "a", "t", "i", "n", "g", ":", "s", "a", "f", "e">>

(***************************************************************************)
(* Items.  json.dumps / json.loads of a result list: an object becomes     *)
(* the pair of its members and back.                                       *)
(***************************************************************************)
Items ==
  { [id |-> 1, tags |-> <<"a", " ", "a", "i", "_", "g", "e", "n", "e", "r", "a", "t", "e", "d">>],
    [id |-> 2, tags |-> <<"a", " ", "b">>],
    [id |-> 3, tags |-> <<"a", " ", "b", " ", "c">>] }

\* A post is a JSON object; one that lacks the member "id" keeps lacking it.
json_dumps(results) ==
  [i \in 1..Len(results) |->
     IF "id" \in DOMAIN results[i] THEN <<results[i].id, results[i].tags>>
                                   ELSE <<results[i].tags>>]
json_loads(text) ==
  [i \in 1..Len(text) |->
     IF Len(text[i]) = 2 THEN [id |-> text[i][1], tags |-> text[i][2]]
                         ELSE [tags |-> text[i][1]]]

\* A stored text that json.loads rejects with JSONDecodeError (a truncated or
\* overwritten payload).
Corrupt == <<<<-1, <<>>>>>>
Decodable(text) == text # Corrupt

(***************************************************************************)
(* CacheManager                                                            *)
(***************************************************************************)
None == [none |-> TRUE]

_parse_tags_for_lookup(tags_str) ==
  {tag \in Range(Split(Lower(tags_str))) : ~StartsWith(tag, <<"-">>)}

\* Faulty variant of BestCandidate: the subset test the wrong way round (issuperset).
RECURSIVE BestCandidateSuperset(_, _, _, _)
BestCandidateSuperset(all_rows, requested_tags_set, best_candidate, best_candidate_tags_len) ==
  IF all_rows = <<>> THEN best_candidate
  ELSE LET row == Head(all_rows)
           candidate_tags_set == _parse_tags_for_lookup(row.tags)
       IN  IF /\ requested_tags_set \subseteq candidate_tags_set
              /\ Cardinality(candidate_tags_set) > best_candidate_tags_len
             THEN BestCandidateSuperset(Tail(all_rows), requested_tags_set, row,
                                        Cardinality(candidate_tags_set))
             ELSE BestCandidateSuperset(Tail(all_rows), requested_tags_set,
                                        best_candidate, best_candidate_tags_len)

\* The scan of get: the first row, in rowid order, among the rows whose tag
\* set is a subset of the request and has the largest cardinality.
RECURSIVE BestCandidate(_, _, _, _)
BestCandidate(all_rows, requested_tags_set, best_candidate, best_candidate_tags_len) ==
  IF all_rows = <<>> THEN best_candidate
  ELSE LET row == Head(all_rows)
           candidate_tags_set == _parse_tags_for_lookup(row.tags)
       IN  IF /\ candidate_tags_set \subseteq requested_tags_set
              /\ Cardinality(candidate_tags_set) > best_candidate_tags_len
             THEN BestCandidate(Tail(all_rows), requested_tags_set, row,
                                Cardinality(candidate_tags_set))
             ELSE BestCandidate(Tail(all_rows), requested_tags_set,
                                best_candidate, best_candidate_tags_len)

\* Faulty variant of is_stale_at: the entry's timestamp is not subtracted.
IsStaleClockOnly(timestamp, t) == t >= cache_ttl

\* Faulty variant of is_stale_at: an entry exactly cache_ttl old still fresh.
IsStaleStrict(timestamp, t) == t - timestamp > cache_ttl

is_stale_at(timestamp, t) == t - timestamp >= cache_ttl

\* Faulty variant of CacheGet: a payload that does not decode is served as no items.
CacheGetLenient(rows, tags, t) ==
  LET best == BestCandidate(rows, _parse_tags_for_lookup(tags), None, -1)
  IN  IF best = None THEN None
      ELSE [results |-> IF Decodable(best.results) THEN json_loads(best.results) ELSE <<>>,
            is_stale |-> is_stale_at(best.timestamp, t),
            key |-> best.tags]

\* get without a storage error; JSONDecodeError on the selected row's payload
\* is caught and get returns None.
CacheGet(rows, tags, t) ==
  LET best == BestCandidate(rows, _parse_tags_for_lookup(tags), None, -1)
  IN  IF best = None \/ ~Decodable(best.results) THEN None
      ELSE [results |-> json_loads(best.results),
            is_stale |-> is_stale_at(best.timestamp, t),
            key |-> best.tags]

\* Faulty variant of CacheSet: INSERT OR IGNORE, an existing row is kept.
CacheSetIgnore(rows, tags, results, t) ==
  IF \E i \in DOMAIN rows : rows[i].tags = tags THEN rows
  ELSE Append(rows, [tags |-> tags, timestamp |-> t, results |-> json_dumps(results)])

\* Faulty variant of CacheSet: REPLACE overwrites results, the row keeps its timestamp.
CacheSetKeepTimestamp(rows, tags, results, t) ==
  IF \E i \in DOMAIN rows : rows[i].tags = tags
    THEN [i \in DOMAIN rows |->
            IF rows[i].tags = tags
              THEN [rows[i] EXCEPT !.results = json_dumps(results)]
              ELSE rows[i]]
    ELSE Append(rows, [tags |-> tags, timestamp |-> t, results |-> json_dumps(results)])

\* Faulty variant of CacheSet: the items of the row replaced are kept after the new ones.
CacheSetMerge(rows, tags, results, t) ==
  LET old == SelectSeq(rows, LAMBDA r : r.tags = tags)
      kept == IF old = <<>> THEN <<>>
              ELSE SelectSeq(old[1].results,
                             LAMBDA e : e \notin Range(json_dumps(results)))
  IN  SelectSeq(rows, LAMBDA r : r.tags # tags)
        \o <<[tags |-> tags, timestamp |-> t, results |-> json_dumps(results) \o kept]>>

\* Faulty variant of CacheSet: a plain INSERT on a table without the primary key.
CacheSetAppend(rows, tags, results, t) ==
  Append(rows, [tags |-> tags, timestamp |-> t, results |-> json_dumps(results)])

\* INSERT OR REPLACE: the row of the same primary key is deleted and the new
\* row gets a fresh rowid, i.e. goes to the end of the scan order.
CacheSet(rows, tags, results, t) ==
  SelectSeq(rows, LAMBDA r : r.tags # tags)
    \o <<[tags |-> tags, timestamp |-> t, results |-> json_dumps(results)]>>

\* Faulty variant of SetOutcome: the old row is gone although the insert failed.
SetOutcomePartial(rows, tags, results, t, failed) ==
  IF failed THEN SelectSeq(rows, LAMBDA r : r.tags # tags)
  ELSE CacheSet(rows, tags, results, t)

\* set: aiosqlite.Error is caught (line 120), nothing was committed.
SetOutcome(rows, tags, results, t, failed) ==
  IF failed THEN rows ELSE CacheSet(rows, tags, results, t)

\* get: aiosqlite.Error is caught (line 94) and get returns None.
GetOutcome(rows, tags, t, failed) ==
  IF failed THEN None ELSE CacheGet(rows, tags, t)

\* Faulty variant of PruneExpired: "timestamp <= ?" in the DELETE.
PruneExpiredInclusive(rows, t) ==
  LET expiration_time == t - cache_max_lifetime
  IN  SelectSeq(rows, LAMBDA r : ~(r.timestamp <= expiration_time))

PruneExpired(rows, t) ==
  LET expiration_time == t - cache_max_lifetime
  IN  SelectSeq(rows, LAMBDA r : ~(r.timestamp < expiration_time))

\* prune_expired: aiosqlite.Error is caught (line 135), nothing was committed.
PruneOutcome(rows, t, failed) ==
  IF failed THEN rows ELSE PruneExpired(rows, t)

(***************************************************************************)
(* GelbooruWatcherBaseCog: tag processing and the result filter            *)
(***************************************************************************)
TagsToProcess(tags_in) ==
  IF ~Contains(tags_in, NEG_AI) THEN tags_in \o <<" ">> \o NEG_AI ELSE tags_in

\* Faulty variant of _parse_tags: only a leading token can be required.
ParseLeadingOnly(tags_str) ==
  LET seq == Split(Lower(tags_str))
      toks == Range(seq)
  IN  [positive |-> IF seq # <<>> /\ ~StartsWith(seq[1], <<"-">>) THEN {seq[1]} ELSE {},
       negative |-> {Tail(tag) : tag \in {x \in toks : StartsWith(x, <<"-">>)}}]

_parse_tags(tags_str) ==
  LET toks == Range(Split(Lower(tags_str)))
  IN  [positive |-> {tag \in toks : ~StartsWith(tag, <<"-">>)},
       negative |-> {Tail(tag) : tag \in {x \in toks : StartsWith(x, <<"-">>)}}]

\* self.tag_aliases is the empty dict.
tag_aliases == [tag \in {} |-> tag]

ApiTagsSet(original_positive_tags) ==
  {IF tag \in DOMAIN tag_aliases THEN tag_aliases[tag] ELSE tag :
     tag \in original_positive_tags}

\* Line 167: the cache key, the aliased positive tags sorted and joined.
ApiTagsStr(original_positive) == Join(Sorted(ApiTagsSet(original_positive)))

\* Faulty variant of AliasLoop: a target is also replaced by its key.
RECURSIVE AliasLoopBothWays(_, _, _)
AliasLoopBothWays(order, api_tags_set, table) ==
  IF order = <<>> THEN api_tags_set
  ELSE LET tag == Head(order)
           keys == {k \in DOMAIN table : table[k] = tag}
       IN  AliasLoopBothWays(Tail(order),
                     IF tag \in DOMAIN table
                       THEN (api_tags_set \ {tag}) \cup {table[tag]}
                       ELSE IF keys # {}
                         THEN (api_tags_set \ {tag}) \cup keys
                         ELSE api_tags_set,
                     table)

\* Lines 161-164 for a given alias table and one iteration order of
\* list(api_tags_set): each tag that is a key of the table is removed and its
\* target added, in one pass over the snapshot.
RECURSIVE AliasLoop(_, _, _)
AliasLoop(order, api_tags_set, table) ==
  IF order = <<>> THEN api_tags_set
  ELSE LET tag == Head(order)
       IN  AliasLoop(Tail(order),
                     IF tag \in DOMAIN table
                       THEN (api_tags_set \ {tag}) \cup {table[tag]}
                       ELSE api_tags_set,
                     table)

\* The orders in which a Python set can be iterated.
Orders(S) == {o \in [1..Cardinality(S) -> S] : Range(o) = S}

\* Lines 160-167: the cache keys the call can compute; the iteration order of
\* a set of str is not fixed, and matters when a target is itself a key.
CacheKeys(table, original_positive) ==
  {Join(Sorted(AliasLoop(o, original_positive, table))) : o \in Orders(original_positive)}

\* Faulty variant of _filter_results: the excluded tags are not consulted.
FilterRequiredOnly(results, required_tags, excluded_tags) ==
  IF required_tags = {} /\ excluded_tags = {} THEN results
  ELSE SelectSeq(results,
         LAMBDA post : required_tags \subseteq Range(Split(post.tags)))

_filter_results(results, required_tags, excluded_tags) ==
  IF required_tags = {} /\ excluded_tags = {} THEN results
  ELSE SelectSeq(results,
         LAMBDA post :
           LET post_tags == Range(Split(post.tags))
           IN  required_tags \subseteq post_tags
               /\ excluded_tags \cap post_tags = {})

\* int(p["id"]) and p["id"] succeed on every post of the list: each has the
\* member "id" (the ids the sites send are integers).
IdsConvertible(posts) == \A i \in DOMAIN posts : "id" \in DOMAIN posts[i]

MaxOf(S) == CHOOSE m \in S : \A x \in S : x <= m

LatestId(cached_results) ==
  IF cached_results # <<>> THEN MaxOf({p.id : p \in Range(cached_results)}) ELSE 0

\* Faulty variant of IsNewPost: the latest cached id itself counts as new.
IsNewPostInclusive(post, latest_id) == post.id >= latest_id

\* Line 219: a fetched post is new when its id exceeds the latest cached id.
IsNewPost(post, latest_id) == post.id > latest_id

\* Faulty variant of HasNewPosts: the write is not guarded.
AlwaysMerge(newly_fetched) == TRUE

\* Line 235, "if newly_fetched_posts:": merge and write only when posts were found.
HasNewPosts(newly_fetched) == newly_fetched # <<>>

\* Faulty variant of ShouldStore: the write is not guarded.
AlwaysStore(source) == TRUE

\* Line 308, "if source_data:": an empty full fetch is not written.
ShouldStore(source) == source # <<>>

\* Faulty variant of MergeNew: the new posts are put after the cached ones.
MergeNewLast(newly_fetched, source) ==
  LET existing_ids == {p.id : p \in Range(source)}
      unique_new_posts == SelectSeq(newly_fetched, LAMBDA p : p.id \notin existing_ids)
  IN  source \o unique_new_posts

\* Lines 240-244: the new posts whose id is not cached, then the cached list.
MergeNew(newly_fetched, source) ==
  LET existing_ids == {p.id : p \in Range(source)}
      unique_new_posts == SelectSeq(newly_fetched, LAMBDA p : p.id \notin existing_ids)
  IN  unique_new_posts \o source

(***************************************************************************)
(* Inputs: raw tag texts, calling contexts, upstream responses             *)
(***************************************************************************)
RawQueries ==
  { <<"b", " ", "a">>,
    <<"a", " ", "b", " ", "c">>,
    <<"a", " ", "-", "c">> }

\* interaction_or_ctx: a str (internal call), or an interaction whose channel
\* is age-restricted or a DM, or one whose channel is neither.
Contexts == {"str", "nsfw_channel", "other_channel"}

\* One page of the upstream: distinct items, newest (highest id) first, at
\* most PageLimit of them.
Pages ==
  UNION { {p \in [1..n -> Items] : \A i, j \in 1..n : i < j => p[i].id > p[j].id} :
          n \in 0..PageLimit }

\* An upstream answer: an exception of session.get, a non-200 status, or a 200
\* whose body response.json() decodes to a list of items, decodes to something
\* else (an object, or None for an empty body), or cannot decode.
Responses ==
  { [status |-> "exception", body |-> "none", data |-> <<>>],
    [status |-> "500", body |-> "none", data |-> <<>>],
    [status |-> "200", body |-> "object", data |-> <<>>],
    [status |-> "200", body |-> "undecodable", data |-> <<>>] }
  \cup { [status |-> "200", body |-> "list", data |-> p] : p \in Pages }

\* The instants at which the clock is read: an entry written at 0 is stale
\* from cache_ttl on; at the last instant an entry written at 0 is older than
\* cache_max_lifetime and one written at cache_ttl is exactly that old.
TimePoints == {0, cache_ttl, cache_max_lifetime + cache_ttl}

Item(n) == CHOOSE it \in Items : it.id = n

\* The table is a sqlite file that outlives the process.  What earlier runs
\* can have left when the cog is constructed: nothing; a full fetch of "b a"
\* at time 0; the same followed by a full fetch of "a" at time cache_ttl.
PersistedStores ==
  { [rows |-> <<>>, at |-> 0],
    [rows |-> CacheSet(<<>>, <<"a", " ", "b">>, <<Item(2)>>, 0), at |-> 0],
    [rows |-> CacheSet(CacheSet(<<>>, <<"a", " ", "b">>, <<Item(2)>>, 0),
                       <<"a">>, <<Item(1)>>, cache_ttl),
     at |-> cache_ttl] }

Tasks == {1}

(***************************************************************************)
(* State                                                                   *)
(***************************************************************************)
VARIABLES
  store,                \* rows of table cache: [tags, timestamp, results]
  now,                  \* time.time()
  queries,              \* number of calls of _fetch_posts_logic so far
  pc,                   \* position of each call
  aliases,              \* self.tag_aliases
  tags,                 \* parameter tags of the call
  tags_to_process,
  original_positive_tags,
  original_negative_tags,
  api_tags_str,
  cache_response,       \* what cache_manager.get returned
  source_data,
  newly_fetched_posts,
  all_fetched_results,
  page,
  result,               \* the value returned
  lookup,               \* history: the rows cache_manager.get scanned, and when
  requests,             \* history: upstream requests and answers of the call
  writes,               \* history: the cache_manager.set calls of the call
  pruned,               \* history: the rows the step just taken pruned, if any
  _lock,                \* CacheManager._lock: the task holding it, the tasks waiting
  db_initialized,       \* CacheManager.db_initialized
  call,                 \* the CacheManager call each task is in, and where
  schema_created,       \* history: the number of CREATE TABLE commits
  faults,               \* history: the storage operations that failed
  user_config,          \* rows of table user_config
  view,                 \* the view the message carries: none, buttons, browse
  supplied,             \* history: the users who passed allow_others_to_use_buttons
  original_interaction_user_id,  \* the user whose command the view answers
  all_results,          \* BrowseView.all_results
  current_index,        \* BrowseView.current_index
  container,            \* BrowseView.container: what it was last built from
  modal,                \* the GoToModal of a pending Go To
  message,              \* the container the message shows since its last edit
  allowed               \* history: the last interaction_check and its verdict

parsed == <<tags_to_process, original_positive_tags, original_negative_tags,
            api_tags_str>>
locals == <<tags, parsed, cache_response, source_data, newly_fetched_posts,
            all_fetched_results, page, result, lookup, requests, writes>>
coordinator == <<store, now, aliases, queries, pc, locals, pruned>>
manager == <<_lock, db_initialized, call, schema_created, faults>>
views == <<user_config, view, supplied, original_interaction_user_id, all_results,
           current_index, container, modal, message, allowed>>
vars == <<coordinator, manager, views>>

\* A returned value: an error string, the filtered list (when pid_override or
\* limit_override is given), or the tuple (text, filtered list, tags used);
\* the text is built from random.choice(final_results) and is not kept.
NoResult == [kind |-> "none", msg |-> "", results |-> <<>>, tags |-> <<>>]
ErrorStr(m) == [kind |-> "str", msg |-> m, results |-> <<>>, tags |-> <<>>]

\* The call did not return: an exception left _fetch_posts_logic.
Raised == [kind |-> "raise", msg |-> "", results |-> <<>>, tags |-> <<>>]

\* The tasks that call into the CacheManager: 1 and 2 run commands, 3 is the
\* cog's own task (cog_load, then the pruning loop).
LockTasks == {1, 2, 3}
CommandTasks == {1, 2}

\* asyncio.Lock(): unlocked, nobody waiting.
Unlocked == [holder |-> 0, waiters |-> <<>>]

\* Not inside any CacheManager call.
Idle == [op |-> "none", at |-> "idle"]

\* No row in table user_config, no view on any message.
ViewsInit ==
  /\ user_config = {}
  /\ view = "none"
  /\ supplied = {}
  /\ original_interaction_user_id = 0
  /\ all_results = <<>>
  /\ current_index = 0
  /\ container = None
  /\ modal = None
  /\ message = None
  /\ allowed = None

\* CacheManager.__init__.
ManagerInit ==
  /\ _lock = Unlocked
  /\ db_initialized = FALSE
  /\ call = [t \in LockTasks |-> Idle]
  /\ schema_created = 0
  /\ faults = {}

InitWith(stores, tables) ==
  /\ \E p \in stores : store = p.rows /\ now = p.at
  /\ aliases \in tables
  /\ queries = 0
  /\ pc = [t \in Tasks |-> "idle"]
  /\ tags = [t \in Tasks |-> <<>>]
  /\ tags_to_process = [t \in Tasks |-> <<>>]
  /\ original_positive_tags = [t \in Tasks |-> {}]
  /\ original_negative_tags = [t \in Tasks |-> {}]
  /\ api_tags_str = [t \in Tasks |-> <<>>]
  /\ cache_response = [t \in Tasks |-> None]
  /\ source_data = [t \in Tasks |-> <<>>]
  /\ newly_fetched_posts = [t \in Tasks |-> <<>>]
  /\ all_fetched_results = [t \in Tasks |-> <<>>]
  /\ page = [t \in Tasks |-> 0]
  /\ result = [t \in Tasks |-> NoResult]
  /\ lookup = [t \in Tasks |-> [rows |-> <<>>, at |-> 0]]
  /\ requests = [t \in Tasks |-> <<>>]
  /\ writes = [t \in Tasks |-> <<>>]
  /\ pruned = None
  /\ ManagerInit
  /\ ViewsInit

\* Line 55: the cog is constructed with its hardcoded alias table.
InitFrom(stores) == InitWith(stores, {tag_aliases})

Init == InitFrom(PersistedStores)

(***************************************************************************)
(* _fetch_posts_logic                                                      *)
(***************************************************************************)
\* Faulty variant of RequiredTags: the aliased tags of the cache key.
RequiredTagsAliased(t) == Range(Split(api_tags_str[t]))

\* Line 313: the filter is given the original, unaliased positive tags.
RequiredTags(t) == original_positive_tags[t]

\* Step 5: the values the call can return for a chosen superset.  Line 324
\* reads random_result["id"] of the post random.choice picked.
ReturnValues(t, source) ==
  LET final_results ==
        _filter_results(source, RequiredTags(t), original_negative_tags[t])
      chosen == {final_results[i] : i \in DOMAIN final_results}
  IN  IF final_results = <<>> THEN {ErrorStr("no_results")}
      ELSE { [kind |-> "list", msg |-> "", results |-> final_results, tags |-> <<>>] }
           \cup { IF IdsConvertible(<<random_result>>)
                    THEN [kind |-> "tuple", msg |-> "", results |-> final_results,
                          tags |-> tags_to_process[t]]
                    ELSE Raised : random_result \in chosen }

Finish(t, source) ==
  /\ source_data' = [source_data EXCEPT ![t] = source]
  /\ \E rv \in ReturnValues(t, source) : result' = [result EXCEPT ![t] = rv]
  /\ pc' = [pc EXCEPT ![t] = "done"]

\* History: the number of cache_manager.set calls of the calls in progress.
SetsSoFar ==
  Cardinality(UNION {{<<u, k>> : k \in DOMAIN writes[u]} : u \in DOMAIN writes})

\* cache_manager.set(key, results) as called by the coordinator; seq orders
\* the set calls of concurrent calls.
SetCache(t, key, results) ==
  /\ store' = CacheSet(store, key, results, now)
  /\ writes' = [writes EXCEPT ![t] =
        Append(@, [tags |-> key, results |-> results, at |-> now, seq |-> SetsSoFar + 1])]

\* Faulty variant of Raises: response.json() never raises.
RaisesTransportOnly(response) == response.status = "exception"

\* The request lands in "except Exception": session.get raised, or the status
\* was 200 and response.json() raised on the body.
Raises(response) ==
  \/ response.status = "exception"
  \/ response.status = "200" /\ response.body = "undecodable"

\* Faulty variant of ReturnsError: the page number is not consulted.
ReturnsErrorAnyPage(pg, response) == Raises(response) \/ response.status # "200"

\* Lines 298 and 303: a full-fetch request makes the call return an error
\* string when it raised or answered non-200, and it was page 0.
ReturnsError(pg, response) ==
  /\ Raises(response) \/ response.status # "200"
  /\ pg = 0

\* Faulty variant of StoredResults: the caller's filtered view is stored.
StoredFiltered(t, source) ==
  _filter_results(source, original_positive_tags[t], original_negative_tags[t])

\* Lines 245 and 309: cache_manager.set is given source_data as it is before
\* the filter of step 5.
StoredResults(t, source) == source

\* Faulty variant of LastPage: the loop runs one iteration more.
LastPageLate(pg) == pg = MaxPages

\* Lines 189 and 256, "for page in range(10)": MaxPages stands for the 10;
\* the iteration with the last index is the last one.
LastPage(pg) == pg + 1 = MaxPages

\* Faulty variant of IncrementalTags: the caller's key instead of the matched key.
IncrementalTagsRequested(t) == api_tags_str[t]

\* Line 196: the query of an incremental request.
IncrementalTags(t) == cache_response[t].key

\* Line 245: the key the merged set is written under.
MergeKey(t) == cache_response[t].key

\* Line 263: the query of a full-fetch request.
FullFetchTags(t) == api_tags_str[t]

\* Faulty variant of FullFetchKey: the raw text instead of the sorted key.
FullFetchKeyRaw(t) == tags[t]

\* Line 309: the key a full fetch is written under.
FullFetchKey(t) == api_tags_str[t]

\* Steps 1 to 3 up to the cache lookup: safety tag, NSFW gate, parsing,
\* aliasing and the cache key.
StartQuery(t, tags_in, ctx) ==
  /\ pc[t] = "idle"
  /\ queries' = queries + 1
  /\ tags' = [tags EXCEPT ![t] = tags_in]
  /\ tags_to_process' = [tags_to_process EXCEPT ![t] = TagsToProcess(tags_in)]
  /\ IF /\ ctx # "str" /\ is_nsfw_site /\ ctx # "nsfw_channel"
        /\ ~Contains(Lower(TagsToProcess(tags_in)), RATING_SAFE)
       THEN /\ result' = [result EXCEPT ![t] = ErrorStr("nsfw_only")]
            /\ pc' = [pc EXCEPT ![t] = "done"]
            /\ UNCHANGED <<original_positive_tags, original_negative_tags, api_tags_str>>
       ELSE /\ LET p == _parse_tags(TagsToProcess(tags_in))
               IN  /\ original_positive_tags' = [original_positive_tags EXCEPT ![t] = p.positive]
                   /\ original_negative_tags' = [original_negative_tags EXCEPT ![t] = p.negative]
                   /\ \E key \in CacheKeys(aliases, p.positive) :
                        api_tags_str' = [api_tags_str EXCEPT ![t] = key]
            /\ pc' = [pc EXCEPT ![t] = "get"]
            /\ UNCHANGED result
  /\ pruned' = None
  /\ UNCHANGED <<aliases, store, now, cache_response, source_data, newly_fetched_posts,
                 all_fetched_results, page, lookup, requests, writes>>
  /\ UNCHANGED manager
  /\ UNCHANGED views

\* A call of the command layer; MaxQueries calls are followed.
BeginQuery(t, tags_in, ctx) ==
  /\ queries < MaxQueries
  /\ StartQuery(t, tags_in, ctx)

\* Step 3: cache check, the fresh branch of step 4, and lines 184-186 of the
\* stale branch, where max(int(p["id"]) ...) is evaluated outside any try.
CacheCheck(t) ==
  /\ pc[t] = "get"
  /\ lookup' = [lookup EXCEPT ![t] = [rows |-> store, at |-> now]]
  /\ LET resp == CacheGet(store, api_tags_str[t], now)
     IN  /\ cache_response' = [cache_response EXCEPT ![t] = resp]
         /\ IF resp = None
              THEN /\ pc' = [pc EXCEPT ![t] = "full_fetch"]
                   /\ UNCHANGED <<source_data, result>>
              ELSE IF resp.is_stale
                THEN /\ source_data' = [source_data EXCEPT ![t] = resp.results]
                     /\ IF IdsConvertible(resp.results)
                          THEN /\ pc' = [pc EXCEPT ![t] = "incremental_fetch"]
                               /\ UNCHANGED result
                          ELSE /\ pc' = [pc EXCEPT ![t] = "done"]
                               /\ result' = [result EXCEPT ![t] = Raised]
                ELSE Finish(t, resp.results)
  /\ pruned' = None
  /\ UNCHANGED <<aliases, store, now, queries, tags, parsed, newly_fetched_posts,
                 all_fetched_results, page, requests, writes>>
  /\ UNCHANGED manager
  /\ UNCHANGED views

\* One iteration of the incremental loop: request page[t] of the matched key.
\* int(post["id"]) at line 219 is inside the try: a page it raises on ends the loop.
IncrementalFetchPage(t, response) ==
  /\ pc[t] = "incremental_fetch"
  /\ LET latest_id == LatestId(cache_response[t].results)
         data == response.data
         ok == /\ response.status = "200" /\ response.body = "list" /\ data # <<>>
               /\ IdsConvertible(data)
         page_new_posts ==
           IF ok THEN SelectSeq(data, LAMBDA post : IsNewPost(post, latest_id))
                 ELSE <<>>
         newly == newly_fetched_posts[t] \o page_new_posts
         stop == \/ ~ok
                 \/ Len(page_new_posts) < Len(data)
                 \/ LastPage(page[t])
     IN  /\ requests' = [requests EXCEPT ![t] =
                Append(@, [tags |-> IncrementalTags(t), pid |-> page[t],
                           response |-> response])]
         /\ newly_fetched_posts' = [newly_fetched_posts EXCEPT ![t] = newly]
         /\ IF ~stop
              THEN /\ page' = [page EXCEPT ![t] = @ + 1]
                   /\ UNCHANGED <<pc, source_data, result>>
              ELSE /\ UNCHANGED page
                   /\ IF HasNewPosts(newly)
                        THEN /\ pc' = [pc EXCEPT ![t] = "merge_set"]
                             /\ UNCHANGED <<source_data, result>>
                        ELSE Finish(t, source_data[t])
  /\ pruned' = None
  /\ UNCHANGED <<aliases, store, now, queries, tags, parsed, cache_response,
                 all_fetched_results, lookup, writes>>
  /\ UNCHANGED manager
  /\ UNCHANGED views

\* Merge and write back under the matched key, then step 5.
MergeAndSet(t) ==
  /\ pc[t] = "merge_set"
  /\ LET merged == MergeNew(newly_fetched_posts[t], source_data[t])
     IN  /\ SetCache(t, MergeKey(t), StoredResults(t, merged))
         /\ Finish(t, merged)
  /\ pruned' = None
  /\ UNCHANGED <<aliases, now, queries, tags, parsed, cache_response, newly_fetched_posts,
                 all_fetched_results, page, lookup, requests>>
  /\ UNCHANGED manager
  /\ UNCHANGED views

\* One iteration of the full-fetch loop: request page[t] of the aliased key.
FullFetchPage(t, response) ==
  /\ pc[t] = "full_fetch"
  /\ LET data == response.data
         ok == response.status = "200" /\ response.body = "list" /\ data # <<>>
         fetched == IF ok THEN all_fetched_results[t] \o data
                          ELSE all_fetched_results[t]
         stop == \/ ~ok
                 \/ Len(data) < PageLimit
                 \/ LastPage(page[t])
     IN  /\ requests' = [requests EXCEPT ![t] =
                Append(@, [tags |-> FullFetchTags(t), pid |-> page[t],
                           response |-> response])]
         /\ all_fetched_results' = [all_fetched_results EXCEPT ![t] = fetched]
         /\ IF ReturnsError(page[t], response)
              THEN /\ result' = [result EXCEPT ![t] =
                         IF Raises(response)
                           THEN ErrorStr("network_error")
                           ELSE ErrorStr("http_status")]
                   /\ pc' = [pc EXCEPT ![t] = "done"]
                   /\ UNCHANGED <<page, source_data>>
              ELSE IF ~stop
                THEN /\ page' = [page EXCEPT ![t] = @ + 1]
                     /\ UNCHANGED <<pc, source_data, result>>
                ELSE /\ UNCHANGED page
                     /\ IF ShouldStore(fetched)
                          THEN /\ pc' = [pc EXCEPT ![t] = "full_set"]
                               /\ source_data' = [source_data EXCEPT ![t] = fetched]
                               /\ UNCHANGED result
                          ELSE Finish(t, fetched)
  /\ pruned' = None
  /\ UNCHANGED <<aliases, store, now, queries, tags, parsed, cache_response,
                 newly_fetched_posts, lookup, writes>>
  /\ UNCHANGED manager
  /\ UNCHANGED views

\* Write the full fetch under the aliased key, then step 5.
FullSet(t) ==
  /\ pc[t] = "full_set"
  /\ SetCache(t, FullFetchKey(t), StoredResults(t, source_data[t]))
  /\ Finish(t, source_data[t])
  /\ pruned' = None
  /\ UNCHANGED <<aliases, now, queries, tags, parsed, cache_response, newly_fetched_posts,
                 all_fetched_results, page, lookup, requests>>
  /\ UNCHANGED manager
  /\ UNCHANGED views

\* The caller takes the value; the locals of the call are gone.
Return(t) ==
  /\ pc[t] = "done"
  /\ pc' = [pc EXCEPT ![t] = "idle"]
  /\ tags' = [tags EXCEPT ![t] = <<>>]
  /\ tags_to_process' = [tags_to_process EXCEPT ![t] = <<>>]
  /\ original_positive_tags' = [original_positive_tags EXCEPT ![t] = {}]
  /\ original_negative_tags' = [original_negative_tags EXCEPT ![t] = {}]
  /\ api_tags_str' = [api_tags_str EXCEPT ![t] = <<>>]
  /\ cache_response' = [cache_response EXCEPT ![t] = None]
  /\ source_data' = [source_data EXCEPT ![t] = <<>>]
  /\ newly_fetched_posts' = [newly_fetched_posts EXCEPT ![t] = <<>>]
  /\ all_fetched_results' = [all_fetched_results EXCEPT ![t] = <<>>]
  /\ page' = [page EXCEPT ![t] = 0]
  /\ result' = [result EXCEPT ![t] = NoResult]
  /\ lookup' = [lookup EXCEPT ![t] = [rows |-> <<>>, at |-> 0]]
  /\ requests' = [requests EXCEPT ![t] = <<>>]
  /\ writes' = [writes EXCEPT ![t] = <<>>]
  /\ pruned' = None
  /\ UNCHANGED <<aliases, store, now, queries>>
  /\ UNCHANGED manager
  /\ UNCHANGED views

(***************************************************************************)
(* Environment: the clock, and the background pruning loop                 *)
(***************************************************************************)
\* After the last await of a call (the write, or the lookup of a fresh hit)
\* the value is returned without another coroutine running.
Returning == \E t \in Tasks : pc[t] = "done"

\* time.time() moves on.
ClockAdvance ==
  /\ \E t \in TimePoints : t > now /\ now' = t
  /\ pruned' = None
  /\ UNCHANGED <<aliases, store, queries, pc, locals>>
  /\ UNCHANGED manager
  /\ UNCHANGED views

Tick ==
  /\ ~Returning
  /\ ClockAdvance

\* start_pruning_loop: one wake-up of the loop runs prune_expired.
PruneRun ==
  /\ store' = PruneExpired(store, now)
  /\ LET deleted == SelectSeq(store, LAMBDA r : r \notin Range(PruneExpired(store, now)))
     IN  pruned' = IF deleted = <<>> THEN None ELSE [rows |-> deleted, at |-> now]
  /\ UNCHANGED <<aliases, now, queries, pc, locals>>
  /\ UNCHANGED manager
  /\ UNCHANGED views

PruneStep ==
  /\ ~Returning
  /\ PruneRun

Next ==
  \/ \E t \in Tasks, tags_in \in RawQueries, ctx \in Contexts : BeginQuery(t, tags_in, ctx)
  \/ \E t \in Tasks : CacheCheck(t)
  \/ \E t \in Tasks, response \in Responses : IncrementalFetchPage(t, response)
  \/ \E t \in Tasks : MergeAndSet(t)
  \/ \E t \in Tasks, response \in Responses : FullFetchPage(t, response)
  \/ \E t \in Tasks : FullSet(t)
  \/ \E t \in Tasks : Return(t)
  \/ Tick
  \/ PruneStep

Spec == Init /\ [][Next]_vars

(***************************************************************************)
(* Two calls of _fetch_posts_logic in flight at once: the commands are     *)
(* coroutines on one event loop and interleave at their awaits, the cache  *)
(* calls and the upstream requests.                                        *)
(***************************************************************************)
Workers == {1, 2}

\* The calls ask for "a -c", which the stored key "a" serves, or for "b",
\* which no stored key serves.
ConcQueries == {<<"a", " ", "-", "c">>, <<"b">>}

\* Upstream answers while two calls are in flight: an exception or a page of
\* PageLimit items.
ConcResponses ==
  {r \in Responses : r.status = "exception"
                       \/ (r.body = "list" /\ Len(r.data) = PageLimit)}

\* The table holds "a b" written at 0 and "a" written at cache_ttl.
InitConc ==
  /\ store = CacheSet(CacheSet(<<>>, <<"a", " ", "b">>, <<Item(2)>>, 0),
                      <<"a">>, <<Item(1)>>, cache_ttl)
  /\ now = cache_ttl
  /\ aliases = tag_aliases
  /\ queries = 0
  /\ pc = [t \in Workers |-> "idle"]
  /\ tags = [t \in Workers |-> <<>>]
  /\ tags_to_process = [t \in Workers |-> <<>>]
  /\ original_positive_tags = [t \in Workers |-> {}]
  /\ original_negative_tags = [t \in Workers |-> {}]
  /\ api_tags_str = [t \in Workers |-> <<>>]
  /\ cache_response = [t \in Workers |-> None]
  /\ source_data = [t \in Workers |-> <<>>]
  /\ newly_fetched_posts = [t \in Workers |-> <<>>]
  /\ all_fetched_results = [t \in Workers |-> <<>>]
  /\ page = [t \in Workers |-> 0]
  /\ result = [t \in Workers |-> NoResult]
  /\ lookup = [t \in Workers |-> [rows |-> <<>>, at |-> 0]]
  /\ requests = [t \in Workers |-> <<>>]
  /\ writes = [t \in Workers |-> <<>>]
  /\ pruned = None
  /\ ManagerInit
  /\ ViewsInit

NextConc ==
  \/ \E t \in Workers, tags_in \in ConcQueries : StartQuery(t, tags_in, "str")
  \/ \E t \in Workers : CacheCheck(t)
  \/ \E t \in Workers, response \in ConcResponses : IncrementalFetchPage(t, response)
  \/ \E t \in Workers : MergeAndSet(t)
  \/ \E t \in Workers, response \in ConcResponses : FullFetchPage(t, response)
  \/ \E t \in Workers : FullSet(t)
  \/ ClockAdvance
  \/ PruneRun

SpecConc == InitConc /\ [][NextConc]_vars

(***************************************************************************)
(* Two calls that ask for the same positive tags with different            *)
(* exclusions, "a" and "a -c", in flight at once: when both look the table *)
(* up before either writes, they run from the same store state.  The      *)
(* clock and the pruning loop are left out: both calls run at one instant. *)
(***************************************************************************)
PairQueries == {<<"a">>, <<"a", " ", "-", "c">>}

\* What earlier runs left: nothing, or a full fetch of "a" at 0, now stale.
PairStores ==
  { [rows |-> <<>>, at |-> 0],
    [rows |-> CacheSet(<<>>, <<"a">>, <<Item(1)>>, 0), at |-> cache_ttl] }

InitPair ==
  /\ \E p \in PairStores : store = p.rows /\ now = p.at
  /\ aliases = tag_aliases
  /\ queries = 0
  /\ pc = [t \in Workers |-> "idle"]
  /\ tags = [t \in Workers |-> <<>>]
  /\ tags_to_process = [t \in Workers |-> <<>>]
  /\ original_positive_tags = [t \in Workers |-> {}]
  /\ original_negative_tags = [t \in Workers |-> {}]
  /\ api_tags_str = [t \in Workers |-> <<>>]
  /\ cache_response = [t \in Workers |-> None]
  /\ source_data = [t \in Workers |-> <<>>]
  /\ newly_fetched_posts = [t \in Workers |-> <<>>]
  /\ all_fetched_results = [t \in Workers |-> <<>>]
  /\ page = [t \in Workers |-> 0]
  /\ result = [t \in Workers |-> NoResult]
  /\ lookup = [t \in Workers |-> [rows |-> <<>>, at |-> 0]]
  /\ requests = [t \in Workers |-> <<>>]
  /\ writes = [t \in Workers |-> <<>>]
  /\ pruned = None
  /\ ManagerInit
  /\ ViewsInit

NextPair ==
  \/ \E t \in Workers, tags_in \in PairQueries : StartQuery(t, tags_in, "str")
  \/ \E t \in Workers : CacheCheck(t)
  \/ \E t \in Workers, response \in ConcResponses : IncrementalFetchPage(t, response)
  \/ \E t \in Workers : MergeAndSet(t)
  \/ \E t \in Workers, response \in ConcResponses : FullFetchPage(t, response)
  \/ \E t \in Workers : FullSet(t)

SpecPair == InitPair /\ [][NextPair]_vars

(***************************************************************************)
(* One call of _fetch_posts_logic on a store whose operations can fail:    *)
(* aiosqlite.Error in init_db, get, set or prune_expired, and a stored     *)
(* payload that json.loads rejects.                                        *)
(***************************************************************************)
\* The table holds "a b", written at 0, with its payload intact or not.
FaultStores ==
  { [rows |-> CacheSet(<<>>, <<"a", " ", "b">>, <<Item(2)>>, 0), at |-> 0],
    [rows |-> <<[tags |-> <<"a", " ", "b">>, timestamp |-> 0, results |-> Corrupt]>>,
     at |-> 0] }

InitFault == InitFrom(FaultStores)

\* init_db at the head of get or set fails: the error is logged, the flag
\* stays False and the method goes on.
InitDbFails(t) ==
  /\ pc[t] \in {"get", "merge_set", "full_set"}
  /\ <<t, "init">> \notin faults
  /\ faults' = faults \cup {<<t, "init">>}
  /\ pruned' = None
  /\ UNCHANGED <<aliases, store, now, queries, pc, locals>>
  /\ UNCHANGED <<_lock, db_initialized, call, schema_created>>
  /\ UNCHANGED views

\* Step 3 when the SELECT of get fails.
GetFails(t) ==
  /\ pc[t] = "get"
  /\ lookup' = [lookup EXCEPT ![t] = [rows |-> store, at |-> now]]
  /\ cache_response' = [cache_response EXCEPT ![t] =
        GetOutcome(store, api_tags_str[t], now, TRUE)]
  /\ pc' = [pc EXCEPT ![t] = "full_fetch"]
  /\ faults' = faults \cup {<<t, "get">>}
  /\ pruned' = None
  /\ UNCHANGED <<aliases, store, now, queries, tags, parsed, source_data, result,
                 newly_fetched_posts, all_fetched_results, page, requests, writes>>
  /\ UNCHANGED <<_lock, db_initialized, call, schema_created>>
  /\ UNCHANGED views

\* The write of step 4 when the INSERT OR REPLACE of set fails, then step 5.
SetFails(t) ==
  /\ pc[t] \in {"merge_set", "full_set"}
  /\ LET key == IF pc[t] = "merge_set" THEN MergeKey(t) ELSE FullFetchKey(t)
         results == IF pc[t] = "merge_set"
                      THEN MergeNew(newly_fetched_posts[t], source_data[t])
                      ELSE source_data[t]
     IN  /\ store' = SetOutcome(store, key, results, now, TRUE)
         /\ Finish(t, results)
  /\ faults' = faults \cup {<<t, "set">>}
  /\ pruned' = None
  /\ UNCHANGED <<aliases, now, queries, tags, parsed, cache_response, newly_fetched_posts,
                 all_fetched_results, page, lookup, requests, writes>>
  /\ UNCHANGED <<_lock, db_initialized, call, schema_created>>
  /\ UNCHANGED views

\* A wake-up of the pruning loop whose DELETE fails.
PruneFails ==
  /\ ~Returning
  /\ <<0, "prune">> \notin faults
  /\ store' = PruneOutcome(store, now, TRUE)
  /\ faults' = faults \cup {<<0, "prune">>}
  /\ pruned' = None
  /\ UNCHANGED <<aliases, now, queries, pc, locals>>
  /\ UNCHANGED <<_lock, db_initialized, call, schema_created>>
  /\ UNCHANGED views

NextFault ==
  \/ \E t \in Tasks, tags_in \in RawQueries : BeginQuery(t, tags_in, "str")
  \/ \E t \in Tasks : InitDbFails(t)
  \/ \E t \in Tasks : CacheCheck(t)
  \/ \E t \in Tasks : GetFails(t)
  \/ \E t \in Tasks, response \in Responses : IncrementalFetchPage(t, response)
  \/ \E t \in Tasks : MergeAndSet(t)
  \/ \E t \in Tasks, response \in Responses : FullFetchPage(t, response)
  \/ \E t \in Tasks : FullSet(t)
  \/ \E t \in Tasks : SetFails(t)
  \/ Tick
  \/ PruneStep
  \/ PruneFails

SpecFault == InitFault /\ [][NextFault]_vars

(***************************************************************************)
(* CacheManager between awaits: self._lock, the lazy init_db, and the      *)
(* storage operation of get, set and prune_expired.  A task runs without   *)
(* interruption up to its next suspension: a wait for the lock, a sqlite   *)
(* operation (run on aiosqlite's thread), an upstream request, a sleep.    *)
(***************************************************************************)
\* asyncio.Lock.acquire takes the lock at once when it is free and nobody waits.
CanTake(l) == l.holder = 0 /\ l.waiters = <<>>

\* Faulty variant of Acquire: the lock is taken whoever holds it.
AcquireBarging(l, t) == [holder |-> t, waiters |-> l.waiters]

\* "async with self._lock" on entry: take the lock, or queue for it.
Acquire(l, t) ==
  IF CanTake(l) THEN [holder |-> t, waiters |-> l.waiters]
  ELSE [holder |-> l.holder, waiters |-> Append(l.waiters, t)]

\* Faulty variant of Release: the first waiter is not woken.
ReleaseNoWakeUp(l) == [holder |-> 0, waiters |-> l.waiters]

\* "async with self._lock" on exit: the lock passes to the first waiter, no
\* later caller can take it before that waiter runs.
Release(l) ==
  IF l.waiters = <<>> THEN Unlocked
  ELSE [holder |-> Head(l.waiters), waiters |-> Tail(l.waiters)]

\* init_db has returned: a bare init_db call is over, get / set /
\* prune_expired go on to "async with self._lock".
AfterInitDb(l, t, op) ==
  IF op = "init" THEN [lock |-> l, call |-> Idle]
  ELSE [lock |-> Acquire(l, t),
        call |-> [op |-> op, at |-> IF CanTake(l) THEN "op_in" ELSE "op_wait"]]

\* A task calls init_db, get, set or prune_expired: the unlocked test of
\* db_initialized (line 28), then the lock of init_db or of the operation.
EnterManager(t, op) ==
  IF db_initialized
    THEN LET nxt == AfterInitDb(_lock, t, op)
         IN  /\ _lock' = nxt.lock
             /\ call' = [call EXCEPT ![t] = nxt.call]
    ELSE /\ _lock' = Acquire(_lock, t)
         /\ call' = [call EXCEPT ![t] =
               [op |-> op, at |-> IF CanTake(_lock) THEN "init_in" ELSE "init_wait"]]

\* A command calls get (line 170); the cog's task calls init_db (cog_load,
\* start_pruning_loop) or prune_expired (the pruning loop after its sleep).
Begin(t, op) ==
  /\ call[t] = Idle
  /\ op \in IF t \in CommandTasks THEN {"get"} ELSE {"init", "prune"}
  /\ EnterManager(t, op)
  /\ UNCHANGED <<db_initialized, schema_created, faults, coordinator>>
  /\ UNCHANGED views

\* A waiting task was given the lock and runs again; in init_db it repeats
\* the test of db_initialized (line 32).
Resume(t) ==
  /\ call[t].at \in {"init_wait", "op_wait"}
  /\ _lock.holder = t
  /\ IF call[t].at = "op_wait"
       THEN /\ call' = [call EXCEPT ![t].at = "op_in"]
            /\ UNCHANGED _lock
       ELSE IF db_initialized
         THEN LET nxt == AfterInitDb(Release(_lock), t, call[t].op)
              IN  /\ _lock' = nxt.lock
                  /\ call' = [call EXCEPT ![t] = nxt.call]
         ELSE /\ call' = [call EXCEPT ![t].at = "init_in"]
              /\ UNCHANGED _lock
  /\ UNCHANGED <<db_initialized, schema_created, faults, coordinator>>
  /\ UNCHANGED views

\* connect, CREATE TABLE IF NOT EXISTS and commit are over: db_initialized is
\* set, or aiosqlite.Error was caught and it is left as it was.
InitDbDone(t, ok) ==
  /\ call[t].at = "init_in"
  /\ db_initialized' = IF ok THEN TRUE ELSE db_initialized
  /\ schema_created' = IF ok THEN schema_created + 1 ELSE schema_created
  /\ LET nxt == AfterInitDb(Release(_lock), t, call[t].op)
     IN  /\ _lock' = nxt.lock
         /\ call' = [call EXCEPT ![t] = nxt.call]
  /\ UNCHANGED <<faults, coordinator>>
  /\ UNCHANGED views

\* The SELECT, INSERT OR REPLACE or DELETE is over, or its error was caught;
\* the lock is released.  After get the command returns (fresh hit) or sends
\* its first upstream request (stale hit, miss).
OpDone(t, fetch) ==
  /\ call[t].at = "op_in"
  /\ fetch => call[t].op = "get"
  /\ _lock' = Release(_lock)
  /\ call' = [call EXCEPT ![t] =
        IF fetch THEN [op |-> "none", at |-> "upstream"] ELSE Idle]
  /\ UNCHANGED <<db_initialized, schema_created, faults, coordinator>>
  /\ UNCHANGED views

\* The last upstream request of the command is answered: it calls set
\* (lines 245, 309) or returns without a write.
UpstreamReturns(t, write) ==
  /\ call[t].at = "upstream"
  /\ IF write
       THEN EnterManager(t, "set")
       ELSE /\ call' = [call EXCEPT ![t] = Idle]
            /\ UNCHANGED _lock
  /\ UNCHANGED <<db_initialized, schema_created, faults, coordinator>>
  /\ UNCHANGED views

InitLock ==
  /\ Init
  /\ store = <<>>

NextLock ==
  \/ \E t \in LockTasks, op \in {"init", "get", "prune"} : Begin(t, op)
  \/ \E t \in LockTasks : Resume(t)
  \/ \E t \in LockTasks, ok \in BOOLEAN : InitDbDone(t, ok)
  \/ \E t \in LockTasks, fetch \in BOOLEAN : OpDone(t, fetch)
  \/ \E t \in CommandTasks, write \in BOOLEAN : UpstreamReturns(t, write)

SpecLock == InitLock /\ [][NextLock]_vars

\* The event loop runs every task that can run, and a sqlite operation ends;
\* nothing makes an upstream request end.
ManagerStep(t) ==
  \/ Resume(t)
  \/ \E ok \in BOOLEAN : InitDbDone(t, ok)
  \/ \E fetch \in BOOLEAN : OpDone(t, fetch)

SpecLockFair ==
  InitLock /\ [][NextLock]_vars /\ \A t \in LockTasks : WF_vars(ManagerStep(t))

(***************************************************************************)
(* One call of _fetch_posts_logic when a post without the member "id" is   *)
(* in an upstream page or in a stored result list.                         *)
(***************************************************************************)
\* A post the site sent without "id".
NoIdPost == [tags |-> <<"a">>]

\* Pages of distinct posts, at most PageLimit of them, that may hold NoIdPost.
MalformedPages ==
  UNION { {p \in [1..n -> {Item(3), Item(2), NoIdPost}] :
             \A i, j \in 1..n : i < j => p[i] # p[j]} : n \in 1..PageLimit }

MalformedResponses ==
  { [status |-> "exception", body |-> "none", data |-> <<>>] }
  \cup { [status |-> "200", body |-> "list", data |-> p] : p \in MalformedPages }

\* What earlier runs can have left: nothing; a full fetch of "a" at 0 that
\* was sent NoIdPost, now stale; a full fetch of "a" at 0 with ids, now stale.
MalformedStores ==
  { [rows |-> <<>>, at |-> 0],
    [rows |-> CacheSet(<<>>, <<"a">>, <<NoIdPost>>, 0), at |-> cache_ttl],
    [rows |-> CacheSet(<<>>, <<"a">>, <<Item(1)>>, 0), at |-> cache_ttl] }

InitMalformed == InitFrom(MalformedStores)

NextMalformed ==
  \/ \E t \in Tasks : BeginQuery(t, <<"a">>, "str")
  \/ \E t \in Tasks : CacheCheck(t)
  \/ \E t \in Tasks, response \in MalformedResponses : IncrementalFetchPage(t, response)
  \/ \E t \in Tasks : MergeAndSet(t)
  \/ \E t \in Tasks, response \in MalformedResponses : FullFetchPage(t, response)
  \/ \E t \in Tasks : FullSet(t)

SpecMalformed == InitMalformed /\ [][NextMalformed]_vars

(***************************************************************************)
(* One call of _fetch_posts_logic against a site that sometimes answers    *)
(* with an object that holds the list of posts under the member "post".    *)
(***************************************************************************)
\* GelbooruCog._parse_api_response on a decodable body: a dict with the
\* member "post" gives that member, a list gives itself, anything else [].
\* No fetch path calls it: both loops read the body with response.json().
_parse_api_response(response) ==
  IF response.body \in {"wrapped", "list"} THEN response.data ELSE <<>>

\* A 200 answer with a non-empty page, bare or under "post", or an exception.
WrappedResponses ==
  { [status |-> "exception", body |-> "none", data |-> <<>>] }
  \cup { [status |-> "200", body |-> b, data |-> p] :
           b \in {"list", "wrapped"}, p \in Pages \ {<<>>} }

\* What earlier runs left: nothing, or a full fetch of "a" at 0, now stale.
WrappedStores ==
  { [rows |-> <<>>, at |-> 0],
    [rows |-> CacheSet(<<>>, <<"a">>, <<Item(1)>>, 0), at |-> cache_ttl] }

InitWrapped == InitFrom(WrappedStores)

NextWrapped ==
  \/ \E t \in Tasks : BeginQuery(t, <<"a">>, "str")
  \/ \E t \in Tasks : CacheCheck(t)
  \/ \E t \in Tasks, response \in WrappedResponses : IncrementalFetchPage(t, response)
  \/ \E t \in Tasks : MergeAndSet(t)
  \/ \E t \in Tasks, response \in WrappedResponses : FullFetchPage(t, response)
  \/ \E t \in Tasks : FullSet(t)

SpecWrapped == InitWrapped /\ [][NextWrapped]_vars

(***************************************************************************)
(* Tag processing as a function of the raw text and the alias table: one   *)
(* call on a table whose row for the empty key holds every post, fresh, so *)
(* that steps 1 to 3 are followed by the filter of step 5 on that list.    *)
(***************************************************************************)
MaxTokens == 3

\* The pieces a raw text is put together from: nothing (two separators in a
\* row, or one at an end), tags in either case, exclusions, a lone "-", and
\* an exclusion that has "-ai_generated" as a proper prefix.
TokenPool ==
  { <<>>, <<"a">>, <<"B">>, <<"-", "a">>, <<"-">>, NEG_AI \o <<"x">> }

\* Raw texts: up to MaxTokens pieces separated by single spaces.
TagInputs == {Join(pieces) : pieces \in UNION {[1..n -> TokenPool] : n \in 0..MaxTokens}}

\* Alias tables: the hardcoded one, a single alias, two aliases of which one
\* maps to a key of the table, an alias to a tag of the posts, and an alias
\* whose target is written in upper case.
AliasTables ==
  { tag_aliases,
    <<"a">> :> <<"b">>,
    (<<"a">> :> <<"b">>) @@ (<<"b">> :> <<"c">>),
    <<"b">> :> <<"c">>,
    <<"a">> :> <<"B">> }

\* A full fetch of the empty key (a query of exclusions only) at time 0.
TagStores ==
  { [rows |-> CacheSet(<<>>, <<>>, <<Item(3), Item(2), Item(1)>>, 0), at |-> 0] }

InitTags == InitWith(TagStores, AliasTables)

NextTags ==
  \/ \E t \in Tasks, tags_in \in TagInputs : BeginQuery(t, tags_in, "str")
  \/ \E t \in Tasks : CacheCheck(t)

SpecTags == InitTags /\ [][NextTags]_vars

(***************************************************************************)
(* The pruning loop next to the commands, at the granularity of the lock:  *)
(* the storage operations take effect on the table, the clock moves, and   *)
(* no storage operation fails.                                             *)
(***************************************************************************)
\* The SELECT, INSERT OR REPLACE or DELETE of the task inside the lock is
\* over and the lock is released: prune_expired deleted the expired rows,
\* set replaced the row of its key (a command's write of key "a").
StorageOpDone(t, fetch) ==
  /\ call[t].at = "op_in"
  /\ fetch => call[t].op = "get"
  /\ store' = CASE call[t].op = "prune" -> PruneExpired(store, now)
                 [] call[t].op = "set" -> CacheSet(store, <<"a">>, <<Item(1)>>, now)
                 [] OTHER -> store
  /\ LET deleted == SelectSeq(store, LAMBDA r : r \notin Range(PruneExpired(store, now)))
     IN  pruned' = IF call[t].op = "prune" /\ deleted # <<>>
                     THEN [rows |-> deleted, at |-> now] ELSE None
  /\ _lock' = Release(_lock)
  /\ call' = [call EXCEPT ![t] =
        IF fetch THEN [op |-> "none", at |-> "upstream"] ELSE Idle]
  /\ UNCHANGED <<now, aliases, queries, pc, locals>>
  /\ UNCHANGED <<db_initialized, schema_created, faults>>
  /\ UNCHANGED views

\* An earlier run left a full fetch of "a", written at 0.
SweepStores == { [rows |-> CacheSet(<<>>, <<"a">>, <<Item(1)>>, 0), at |-> 0] }

InitSweep == InitFrom(SweepStores)

NextSweep ==
  \/ \E t \in LockTasks, op \in {"init", "get", "prune"} : Begin(t, op)
  \/ \E t \in LockTasks : Resume(t)
  \/ \E t \in LockTasks : InitDbDone(t, TRUE)
  \/ \E t \in LockTasks, fetch \in BOOLEAN : StorageOpDone(t, fetch)
  \/ \E t \in CommandTasks, write \in BOOLEAN : UpstreamReturns(t, write)
  \/ ClockAdvance

\* The event loop runs every task that can run and a sqlite operation ends.
SweepStep(t) ==
  \/ Resume(t)
  \/ InitDbDone(t, TRUE)
  \/ \E fetch \in BOOLEAN : StorageOpDone(t, fetch)

\* start_pruning_loop: "while True: await asyncio.sleep(interval); await
\* self.prune_expired()": the sleep of the cog's task ends.
SleepEnds == Begin(3, "prune")

SpecSweep ==
  /\ InitSweep /\ [][NextSweep]_vars
  /\ \A t \in LockTasks : WF_vars(SweepStep(t))
  /\ WF_vars(SleepEnds)

(***************************************************************************)
(* Properties                                                              *)
(***************************************************************************)
K_A == <<"a">>
K_AB == <<"a", " ", "b">>
K_AC == <<"a", " ", "c">>
K_ABC == <<"a", " ", "b", " ", "c">>
Q_A_NOT_C == <<"a", " ", "-", "c">>

StoredKeys(rows) == {rows[i].tags : i \in DOMAIN rows}

Active(t) == pc[t] \notin {"idle", "get"}
Hit(t) == Active(t) /\ cache_response[t] # None
Miss(t) == Active(t) /\ cache_response[t] = None /\ result[t].msg # "nsfw_only"

T_A == <<"a">>
T_B == <<"b">>
T_C == <<"c">>
T_AI == <<"a", "i", "_", "g", "e", "n", "e", "r", "a", "t", "e", "d">>

\* What each raw text asks for: the tags an item must carry, the tags it must
\* not carry, and the cache key (the required tags in lower case, sorted,
\* joined by single spaces).
Wanted ==
  [q \in RawQueries |->
     CASE q = <<"b", " ", "a">> ->
            [positive |-> {T_A, T_B}, negative |-> {T_AI}, key |-> K_AB]
       [] q = K_ABC ->
            [positive |-> {T_A, T_B, T_C}, negative |-> {T_AI}, key |-> K_ABC]
       [] q = Q_A_NOT_C ->
            [positive |-> {T_A}, negative |-> {T_C, T_AI}, key |-> K_A]]

\* Request strings a lookup is tried with, and the positive-tag set of each.
Lookups == {K_A, K_AB, K_ABC, K_AC, T_B, <<"B", " ", "a">>, Q_A_NOT_C}

PositiveTags ==
  [s \in Lookups \cup RawQueries |->
     CASE s = K_A -> {T_A} [] s = K_AB -> {T_A, T_B} [] s = K_ABC -> {T_A, T_B, T_C}
       [] s = K_AC -> {T_A, T_C} [] s = T_B -> {T_B}
       [] s = <<"B", " ", "a">> -> {T_A, T_B} [] s = <<"b", " ", "a">> -> {T_A, T_B}
       [] s = Q_A_NOT_C -> {T_A}]

\* The whitespace-separated tags of each item.
ItemTags ==
  [it \in Items |->
     CASE it.id = 1 -> {T_A, T_AI} [] it.id = 2 -> {T_A, T_B} [] it.id = 3 -> {T_A, T_B, T_C}]

\* got is a best subset match of req among rows.
BestSubsetMatch(rows, req, got) ==
  LET want == PositiveTags[req]
      subs == {i \in DOMAIN rows : PositiveTags[rows[i].tags] \subseteq want}
  IN  IF subs = {} THEN got = None
      ELSE /\ got # None
           /\ \E i \in subs :
                /\ rows[i].tags = got.key
                /\ json_loads(rows[i].results) = got.results
                /\ \A j \in subs :
                     Cardinality(PositiveTags[rows[j].tags])
                       <= Cardinality(PositiveTags[rows[i].tags])

\* C1: get returns an entry whose tag set is a subset of the request and of
\* the largest cardinality among the stored subset entries, and none exactly
\* when no stored entry is a subset: for every lookup on the table as it is,
\* and for what each call got from the rows it scanned.  With exactly "a" and
\* "a b" stored, "a b c" matches "a b" and "a c" matches "a".
C1_BestSubsetMatch ==
  /\ \A req \in Lookups : BestSubsetMatch(store, req, CacheGet(store, req, now))
  /\ \A t \in Tasks :
       Active(t) /\ result[t].msg # "nsfw_only"
         => BestSubsetMatch(lookup[t].rows, Wanted[tags[t]].key, cache_response[t])
  /\ StoredKeys(store) = {K_A, K_AB}
       => /\ CacheGet(store, K_ABC, now).key = K_AB
          /\ CacheGet(store, K_AC, now).key = K_A

C1_Witness ==
  \E t \in Tasks :
    /\ Hit(t)
    /\ tags[t] = K_ABC
    /\ StoredKeys(lookup[t].rows) = {K_A, K_AB}
    /\ cache_response[t].key = K_AB

\* C2: right after set(key, R), with no time elapsed, a get with the same
\* positive-tag set returns R unmodified, not stale, matched to the key written.
C2_SetThenGet ==
  \A t \in Tasks :
    (pc[t] = "done" /\ writes[t] # <<>> /\ writes[t][Len(writes[t])].at = now)
      => LET w == writes[t][Len(writes[t])]
         IN  \A req \in Lookups :
               PositiveTags[req] = PositiveTags[w.tags]
                 => CacheGet(store, req, now)
                      = [results |-> w.results, is_stale |-> FALSE, key |-> w.tags]

C2_Witness ==
  \E t \in Tasks :
    /\ pc[t] = "done" /\ Hit(t) /\ Len(writes[t]) = 1 /\ writes[t][1].at = now
    /\ writes[t][1].tags = K_AB
    /\ Len(writes[t][1].results) >= 2
    /\ CacheGet(store, <<"B", " ", "a">>, now)
         = [results |-> writes[t][1].results, is_stale |-> FALSE, key |-> K_AB]

\* The positions, in order, of the items of source whose whitespace-split tag
\* set contains every tag of P and none of N.
Satisfying(source, P, N) ==
  {i \in DOMAIN source :
     LET item_tags == ItemTags[source[i]]
     IN  P \subseteq item_tags /\ N \cap item_tags = {}}

\* C3: the list a call returns is exactly the in-order sub-sequence of the
\* superset it chose made of the items satisfying the original positive and
\* negative tags; "no results" is returned only when no item satisfies them.
C3_FilterExact ==
  \A t \in Tasks :
    pc[t] = "done" /\ result[t].msg \notin {"nsfw_only", "network_error", "http_status"}
      => LET sat == Satisfying(source_data[t], Wanted[tags[t]].positive,
                                   Wanted[tags[t]].negative)
             out == result[t].results
         IN  /\ Len(out) = Cardinality(sat)
             /\ \A k \in DOMAIN out :
                  \E i \in sat :
                    /\ Cardinality({j \in sat : j <= i}) = k
                    /\ out[k] = source_data[t][i]
             /\ (result[t].kind = "str") = (sat = {})

C3_Witness ==
  \E t \in Tasks :
    /\ pc[t] = "done" /\ tags[t] = Q_A_NOT_C /\ result[t].kind = "tuple"
    /\ source_data[t] = <<Item(3), Item(2), Item(1)>>
    /\ result[t].results = <<Item(2)>>

NoDuplicateIds(items) ==
  \A i, j \in DOMAIN items : i # j => items[i].id # items[j].id

\* C4 (as claimed): every merge is duplicate-free and new-before-old: the
\* merged list has no two items of the same id, it is the new items whose id
\* is not cached followed by the cached list, and merging new [3,2] into
\* cached [2,1] yields exactly [3,2,1].
C4_MergeDuplicateFree ==
  /\ MergeNew(<<Item(3), Item(2)>>, <<Item(2), Item(1)>>) = <<Item(3), Item(2), Item(1)>>
  /\ \A t \in Tasks :
       (pc[t] = "done" /\ Hit(t) /\ writes[t] # <<>>)
         => LET merged == writes[t][1].results
                cached == cache_response[t].results
                k == Len(merged) - Len(cached)
            IN  /\ k >= 0
                /\ SubSeq(merged, k + 1, Len(merged)) = cached
                /\ \A i \in 1..k :
                     /\ merged[i] \in Range(newly_fetched_posts[t])
                     /\ merged[i].id \notin {p.id : p \in Range(cached)}
                /\ NoDuplicateIds(merged)

\* The row of lookup[t] that get matched, and whether it was fresh then.
MatchedRow(t) ==
  CHOOSE r \in Range(lookup[t].rows) : r.tags = cache_response[t].key
FreshHit(t) ==
  Hit(t) /\ lookup[t].at - MatchedRow(t).timestamp < cache_ttl
StaleHit(t) ==
  Hit(t) /\ lookup[t].at - MatchedRow(t).timestamp >= cache_ttl

\* No row was written or changed since the lookup (rows can only have been
\* pruned by the background loop).
NothingWritten(t) ==
  writes[t] = <<>> /\ Range(store) \subseteq Range(lookup[t].rows)

\* C5: a call whose lookup is a fresh hit issues no upstream request and no
\* cache write, the superset it filters is the matched entry's results, and
\* the table is as the lookup found it.
C5_FreshHitServesCache ==
  \A t \in Tasks :
    FreshHit(t)
      => /\ pc[t] = "done"
         /\ requests[t] = <<>>
         /\ writes[t] = <<>>
         /\ store = lookup[t].rows
         /\ source_data[t] = json_loads(MatchedRow(t).results)

C5_Witness ==
  \E t \in Tasks :
    /\ FreshHit(t) /\ pc[t] = "done"
    /\ tags[t] = <<"b", " ", "a">> /\ cache_response[t].key = K_AB
    /\ store = lookup[t].rows /\ store # <<>>
    /\ result[t].kind = "tuple" /\ result[t].results = <<Item(2)>>

PageItems(response) ==
  IF response.status = "200" /\ response.body = "list" THEN response.data ELSE <<>>

RECURSIVE ConcatPages(_)
ConcatPages(reqs) ==
  IF reqs = <<>> THEN <<>>
  ELSE PageItems(Head(reqs).response) \o ConcatPages(Tail(reqs))

FullPage(response) == Len(PageItems(response)) = PageLimit

\* C6: on a miss the pages 0, 1, 2, ... are requested with the aliased cache
\* key as the query, a further page only after a full one and below the cap,
\* and when items were accumulated set is called once, with that key and the
\* concatenation in page order of the pages fetched, which the table then holds.
C6_FullFetchStoresAllPages ==
  \A t \in Tasks :
    Miss(t)
      => LET reqs == requests[t]
             key == Wanted[tags[t]].key
             all == ConcatPages(reqs)
         IN  /\ Len(reqs) <= MaxPages
             /\ \A i \in DOMAIN reqs :
                  /\ reqs[i].pid = i - 1
                  /\ reqs[i].tags = key
                  /\ i < Len(reqs) => FullPage(reqs[i].response)
             /\ pc[t] = "full_fetch" /\ reqs # <<>> => FullPage(reqs[Len(reqs)].response)
             /\ pc[t] \in {"full_set", "done"}
                  => reqs # <<>> /\ (Len(reqs) = MaxPages \/ ~FullPage(reqs[Len(reqs)].response))
             /\ pc[t] = "done" /\ all # <<>>
                  => /\ Len(writes[t]) = 1
                     /\ writes[t][1].tags = key
                     /\ writes[t][1].results = all
                     /\ \A i \in DOMAIN store :
                          store[i].tags = key
                            => store[i] = [tags |-> key, timestamp |-> now,
                                           results |-> json_dumps(all)]
                     /\ key \in StoredKeys(store)

C6_Witness ==
  \E t \in Tasks :
    /\ Miss(t) /\ pc[t] = "done" /\ tags[t] = Q_A_NOT_C
    /\ Len(requests[t]) = 2
    /\ requests[t][2].response.data # <<>>
    /\ \E i \in DOMAIN store :
         /\ store[i].tags = K_A
         /\ Len(store[i].results) = 3
    /\ K_AB \in StoredKeys(store)

\* C7: when page 0 of a full fetch answers 200 with no items (an empty list,
\* or a body that is not a list), the call returns "no results" after that one
\* request and writes nothing.
C7_EmptyFirstPageNoWrite ==
  \A t \in Tasks :
    (/\ Miss(t) /\ requests[t] # <<>>
     /\ requests[t][1].response.status = "200"
     /\ requests[t][1].response.body \in {"list", "object"}
     /\ PageItems(requests[t][1].response) = <<>>)
      => /\ pc[t] = "done"
         /\ result[t] = ErrorStr("no_results")
         /\ Len(requests[t]) = 1
         /\ NothingWritten(t)

C7_Witness ==
  \E t \in Tasks :
    /\ Miss(t) /\ pc[t] = "done" /\ Len(requests[t]) = 1
    /\ requests[t][1].response = [status |-> "200", body |-> "list", data |-> <<>>]
    /\ result[t] = ErrorStr("no_results")
    /\ store = lookup[t].rows /\ store # <<>>

\* No item the upstream returned to the call is newer than the cached ones.
NoNewContent(t) ==
  \A i \in DOMAIN requests[t] :
    \A item \in Range(PageItems(requests[t][i].response)) :
      \E c \in Range(cache_response[t].results) : item.id <= c.id

\* C8: when an incremental fetch on a stale entry finds no new items nothing
\* is written: the entry keeps its timestamp and results, and a lookup finds
\* it stale again as long as it has not been pruned.
C8_NoNewItemsNoWrite ==
  \A t \in Tasks :
    (StaleHit(t) /\ pc[t] = "done" /\ NoNewContent(t))
      => /\ NothingWritten(t)
         /\ cache_response[t].key \in StoredKeys(store)
              => /\ MatchedRow(t) \in Range(store)
                 /\ CacheGet(store, Wanted[tags[t]].key, now)
                      = [results |-> json_loads(MatchedRow(t).results),
                         is_stale |-> TRUE, key |-> MatchedRow(t).tags]

C8_Witness ==
  \E t \in Tasks :
    /\ StaleHit(t) /\ pc[t] = "done" /\ NoNewContent(t)
    /\ requests[t] # <<>> /\ PageItems(requests[t][1].response) # <<>>
    /\ store = lookup[t].rows
    /\ CacheGet(store, Wanted[tags[t]].key, now).is_stale

\* C9: on a hit the key that get returned is a stored key; every request of
\* the incremental fetch uses it as the query and the merged set is written
\* under it, so a call that hits adds no key to the table.
C9_MatchedKeyUsed ==
  \A t \in Tasks :
    Hit(t)
      => LET k == cache_response[t].key
         IN  /\ k \in StoredKeys(lookup[t].rows)
             /\ \A i \in DOMAIN requests[t] : requests[t][i].tags = k
             /\ \A i \in DOMAIN writes[t] : writes[t][i].tags = k
             /\ StoredKeys(store) \subseteq StoredKeys(lookup[t].rows)

C9_Witness ==
  \E t \in Tasks :
    /\ StaleHit(t) /\ pc[t] = "done" /\ tags[t] = K_ABC
    /\ cache_response[t].key = K_AB
    /\ Len(requests[t]) = 2 /\ requests[t][2].tags = K_AB
    /\ Len(writes[t]) = 1 /\ writes[t][1].tags = K_AB
    /\ K_ABC \notin StoredKeys(store)

\* C10: prune_expired keeps, unchanged and in order, exactly the rows whose
\* timestamp is not older than now - cache_max_lifetime: a row stamped
\* now - cache_max_lifetime - 1 goes, one stamped now - cache_max_lifetime + 1
\* stays, as does one stamped exactly now - cache_max_lifetime; after a prune
\* that deleted rows no expired row is left.
C10_PruneExactlyExpired ==
  LET limit == now - cache_max_lifetime
      row(ts) == [tags |-> K_A, timestamp |-> ts, results |-> <<>>]
  IN  /\ PruneExpired(store, now) = SelectSeq(store, LAMBDA r : r.timestamp >= limit)
      /\ PruneExpired(<<row(limit - 1), row(limit), row(limit + 1)>>, now)
           = <<row(limit), row(limit + 1)>>
      /\ pruned # None
           => /\ pruned.at = now
              /\ \A r \in Range(pruned.rows) : r.timestamp < limit
              /\ \A r \in Range(store) : r.timestamp >= limit

C10_Witness ==
  /\ pruned # None
  /\ \E r \in Range(pruned.rows) : r.timestamp < now - cache_max_lifetime
  /\ \E r \in Range(store) : r.timestamp = now - cache_max_lifetime

\* C11: for the entry get selects, is_stale is true exactly when the age at the
\* lookup is at least cache_ttl: an entry exactly cache_ttl old is stale, one
\* second younger is fresh.  cache_ttl is below cache_max_lifetime, so every
\* row old enough to be pruned is stale, and rows are stale before that.
C11_StaleAtTTL ==
  /\ cache_ttl < cache_max_lifetime
  /\ \A t \in Tasks :
       Hit(t) => cache_response[t].is_stale
                   = (lookup[t].at - MatchedRow(t).timestamp >= cache_ttl)
  /\ \A i \in DOMAIN store :
       LET ts == store[i].timestamp
       IN  /\ is_stale_at(ts, ts + cache_ttl)
           /\ ~is_stale_at(ts, ts + cache_ttl - 1)
           /\ ts < now - cache_max_lifetime => is_stale_at(ts, now)

C11_Witness ==
  \E t \in Tasks :
    /\ Hit(t)
    /\ lookup[t].at - MatchedRow(t).timestamp = cache_ttl
    /\ cache_response[t].is_stale
    /\ pc[t] = "incremental_fetch"
    /\ MatchedRow(t).timestamp >= lookup[t].at - cache_max_lifetime

\* Keys in canonical form: lower case, sorted, joined by single spaces.
CanonicalKeys == {s \in Lookups : s = Join(Sorted(PositiveTags[s])) /\ s = Lower(s)}

\* C12: the table never holds two rows whose keys parse to the same set of
\* positive tags; every stored key is canonical, and every key a call writes
\* is the canonical key of its request or a key the lookup read from the table.
C12_OneEntryPerKey ==
  /\ \A i, j \in DOMAIN store :
       i # j => PositiveTags[store[i].tags] # PositiveTags[store[j].tags]
  /\ StoredKeys(store) \subseteq CanonicalKeys
  /\ \A t \in Tasks : \A k \in DOMAIN writes[t] :
       \/ writes[t][k].tags = Wanted[tags[t]].key
       \/ writes[t][k].tags \in StoredKeys(lookup[t].rows)

C12_Witness ==
  \E t \in Tasks :
    /\ writes[t] # <<>>
    /\ writes[t][1].tags \in StoredKeys(lookup[t].rows)
    /\ writes[t][1].tags # Wanted[tags[t]].key
    /\ Len(store) = 2
    /\ Len(lookup[t].rows) = 2

\* What a call that ended its page loop on request i works with: on a miss the
\* items of the pages fetched, on a hit the new items merged before the cached ones.
Collected(t) ==
  IF Miss(t) THEN ConcatPages(requests[t])
  ELSE LET latest_id == LatestId(cache_response[t].results)
       IN  MergeNew(SelectSeq(ConcatPages(requests[t]),
                              LAMBDA post : post.id > latest_id),
                    cache_response[t].results)

UpstreamErrors == {"network_error", "http_status"}

\* The call went on after its page loop with the items collected.
UsesCollected(t) ==
  /\ result[t].msg \notin UpstreamErrors
  /\ pc[t] = "done" => source_data[t] = Collected(t)
  /\ pc[t] = "done" /\ Collected(t) # <<>> /\ (Miss(t) \/ writes[t] # <<>>)
       => /\ Len(writes[t]) = 1
          /\ writes[t][1].results = Collected(t)

\* C19: an upstream exception or non-200 answer makes the call return an
\* error string exactly when it is the answer to page 0 of a full fetch, and
\* then nothing is written; on a later page of a full fetch and on any page of
\* an incremental fetch it is the last request of the call, which goes on
\* with the items collected so far (after the cached ones, on a hit).
C19_ErrorOnlyOnFirstFullPage ==
  \A t \in Tasks :
    /\ result[t].msg \in UpstreamErrors
         => Miss(t) /\ Len(requests[t]) = 1 /\ NothingWritten(t)
    /\ \A i \in DOMAIN requests[t] :
         LET r == requests[t][i].response
         IN  r.status # "200"
               => /\ i = Len(requests[t])
                  /\ pc[t] \in {"done", "merge_set", "full_set"}
                  /\ IF Miss(t) /\ i = 1
                       THEN /\ pc[t] = "done"
                            /\ result[t] = ErrorStr(IF r.status = "exception"
                                                      THEN "network_error"
                                                      ELSE "http_status")
                            /\ NothingWritten(t)
                       ELSE UsesCollected(t)

C19_Witness ==
  \E t \in Tasks :
    /\ Miss(t) /\ pc[t] = "done"
    /\ Len(requests[t]) = 2
    /\ requests[t][2].response.status = "500"
    /\ result[t].kind = "tuple"
    /\ Len(writes[t]) = 1
    /\ Len(writes[t][1].results) = PageLimit

\* C20: a 200 answer whose body is not a list is the last request of the
\* call.  As the answer to page 0 of a full fetch it makes the call return an
\* error string and write nothing, as an upstream exception on that page
\* does: the "network error" string when the body cannot be decoded, the
\* "no results" string when it decodes to something that is not a list.
\* Anywhere else the call goes on with the items collected so far.
C20_NonListEndsPages ==
  \A t \in Tasks :
    \A i \in DOMAIN requests[t] :
      LET r == requests[t][i].response
      IN  r.status = "200" /\ r.body # "list"
            => /\ i = Len(requests[t])
               /\ pc[t] \in {"done", "merge_set", "full_set"}
               /\ IF Miss(t) /\ i = 1
                    THEN /\ pc[t] = "done"
                         /\ result[t] = ErrorStr(IF r.body = "undecodable"
                                                   THEN "network_error"
                                                   ELSE "no_results")
                         /\ NothingWritten(t)
                    ELSE UsesCollected(t)

C20_Witness ==
  \E t \in Tasks :
    /\ Miss(t) /\ pc[t] = "done"
    /\ Len(requests[t]) = 1
    /\ requests[t][1].response = [status |-> "200", body |-> "object", data |-> <<>>]
    /\ result[t].kind = "str"
    /\ store = lookup[t].rows /\ store # <<>>

\* The rows earlier runs can have left in the table.
PersistedRows == UNION {Range(p.rows) : p \in PersistedStores}

\* The row a set call writes.
WrittenRow(w) ==
  [tags |-> w.tags, timestamp |-> w.at, results |-> json_dumps(w.results)]

AllWrites == UNION {Range(writes[t]) : t \in DOMAIN writes}

\* Every row is as one set call wrote it, or as it was persisted.
WholeRows ==
  \A r \in Range(store) :
    r \in PersistedRows \/ \E w \in AllWrites : r = WrittenRow(w)

\* A step in which a call made a set call leaves exactly one row under the
\* key, the one written, and every row of another key as it was.
SetFrame ==
  \A t \in DOMAIN writes :
    Len(writes'[t]) > Len(writes[t])
      => LET w == writes'[t][Len(writes'[t])]
         IN  /\ SelectSeq(store', LAMBDA r : r.tags = w.tags) = <<WrittenRow(w)>>
             /\ SelectSeq(store', LAMBDA r : r.tags # w.tags)
                  = SelectSeq(store, LAMBDA r : r.tags # w.tags)
             /\ w.at = now

\* C13: set replaces or inserts the row of its key, timestamp and results
\* together, and changes no row of another key; whatever the interleaving of
\* the lookups, set calls and prunes of two calls, no row pairs the timestamp
\* of one set call with the results of another.
C13_SetReplacesWhole == []WholeRows /\ [][SetFrame]_vars

C13_Witness ==
  \E a, b \in DOMAIN pc :
    /\ a # b /\ pc[a] = "done" /\ pc[b] = "done"
    /\ Miss(a) /\ Miss(b)
    /\ Len(writes[a]) = 1 /\ Len(writes[b]) = 1
    /\ writes[a][1].tags = T_B /\ writes[b][1].tags = T_B
    /\ writes[a][1].seq < writes[b][1].seq
    /\ writes[a][1].at < writes[b][1].at
    /\ writes[a][1].results # writes[b][1].results
    /\ WrittenRow(writes[b][1]) \in Range(store)
    /\ WrittenRow(writes[a][1]) \notin Range(store)
    /\ Len(store) = 2 /\ K_A \in StoredKeys(store)

\* C17: when two calls both got a stale hit on the same stored key and both
\* wrote back, the row of that key is the one the later set call wrote: the
\* later call's new items before the cached items it had read, nothing of what
\* the earlier call wrote.
C17_LastWriterWins ==
  \A a, b \in DOMAIN pc :
    (/\ a # b /\ pc[a] = "done" /\ pc[b] = "done"
     /\ StaleHit(a) /\ StaleHit(b)
     /\ cache_response[a].key = cache_response[b].key
     /\ writes[a] # <<>> /\ writes[b] # <<>>
     /\ writes[a][1].seq < writes[b][1].seq)
      => LET k == cache_response[b].key
         IN  /\ SelectSeq(store, LAMBDA r : r.tags = k) = <<WrittenRow(writes[b][1])>>
             /\ writes[b][1].results
                  = MergeNew(newly_fetched_posts[b], cache_response[b].results)
             /\ requests[a] # <<>> /\ requests[b] # <<>>

C17_Witness ==
  \E a, b \in DOMAIN pc :
    /\ a # b /\ pc[a] = "done" /\ pc[b] = "done"
    /\ StaleHit(a) /\ StaleHit(b)
    /\ cache_response[a].key = K_A /\ cache_response[b].key = K_A
    /\ lookup[a].rows = lookup[b].rows
    /\ writes[a] # <<>> /\ writes[b] # <<>>
    /\ writes[a][1].seq < writes[b][1].seq
    /\ Item(3) \in Range(writes[a][1].results)
    /\ \E i \in DOMAIN store :
         /\ store[i].tags = K_A
         /\ json_loads(store[i].results) = <<Item(2), Item(1)>>

\* The task is inside a storage operation: the schema creation of init_db, or
\* the table scan, insert-or-replace or delete of get, set, prune_expired.
Inside(t) == call[t].at \in {"init_in", "op_in"}

Waiting(t) == call[t].at \in {"init_wait", "op_wait"}

\* C14: whatever the interleaving of get, set, prune_expired and init_db
\* calls of the tasks, at most one task is inside a storage operation, and
\* that task holds the lock.
C14_OneStorageOperation ==
  /\ Cardinality({t \in LockTasks : Inside(t)}) <= 1
  /\ \A t \in LockTasks : Inside(t) => _lock.holder = t

C14_Witness ==
  /\ call[1] = [op |-> "set", at |-> "op_in"]
  /\ call[2] = [op |-> "get", at |-> "op_wait"]
  /\ call[3] = [op |-> "prune", at |-> "op_wait"]
  /\ _lock = [holder |-> 1, waiters |-> <<3, 2>>]

\* The schema creation succeeds at most once and db_initialized never goes
\* back to false, also when several tasks use the store for the first time
\* at once.
SchemaCreatedOnce ==
  /\ [](schema_created <= 1)
  /\ [](db_initialized <=> schema_created = 1)
  /\ [][db_initialized => db_initialized']_vars

\* C15: the schema creation succeeds at most once, db_initialized never goes
\* back to false, and no task is inside a table scan, insert-or-replace or
\* delete before a schema creation has succeeded.
C15_LazyInitRaceFree ==
  /\ SchemaCreatedOnce
  /\ [](\A t \in LockTasks : call[t].at = "op_in" => schema_created >= 1)

\* C16: a task whose upstream request is outstanding neither holds the lock
\* nor waits for it, and every CacheManager call a task has started comes to
\* its end, in particular while the upstream request of another task never
\* returns.
C16_UpstreamOutsideLock ==
  /\ [](\A t \in LockTasks :
          call[t].at = "upstream"
            => _lock.holder # t /\ t \notin Range(_lock.waiters))
  /\ \A t \in LockTasks : (call[t].op # "none") ~> (call[t].op = "none")

C16_Witness ==
  /\ call[1].at = "upstream"
  /\ call[2] = [op |-> "set", at |-> "op_wait"]
  /\ call[3] = [op |-> "prune", at |-> "op_in"]
  /\ _lock = [holder |-> 3, waiters |-> <<2>>]

\* The items of source, in order, carrying every tag of P and none of N.
FilteredList(source, P, N) ==
  SelectSeq(source, LAMBDA it : P \subseteq ItemTags[it] /\ N \cap ItemTags[it] = {})

\* The row get selected among the rows it scanned has a payload that does
\* not decode.
SelectedCorrupt(t) ==
  LET rows == lookup[t].rows
      want == PositiveTags[Wanted[tags[t]].key]
      subs == {i \in DOMAIN rows : PositiveTags[rows[i].tags] \subseteq want}
  IN  \E i \in subs :
        /\ rows[i].results = Corrupt
        /\ \A j \in subs :
             LET ci == Cardinality(PositiveTags[rows[i].tags])
                 cj == Cardinality(PositiveTags[rows[j].tags])
             IN  cj < ci \/ (cj = ci /\ i <= j)

\* The lookup of the call failed: a storage error, or an undecodable payload.
GetFailed(t) ==
  Active(t) /\ result[t].msg # "nsfw_only"
    /\ (<<t, "get">> \in faults \/ SelectedCorrupt(t))

\* A call whose lookup failed is on the miss path: it got None, every request
\* is a full-fetch page under its own key, and what it returns is the error
\* string of a failed page 0 or the filter of the pages fetched.
FailedGetIsMiss(t) ==
  GetFailed(t)
    => /\ cache_response[t] = None
       /\ pc[t] \in {"full_fetch", "full_set", "done"}
       /\ \A i \in DOMAIN requests[t] :
            requests[t][i].tags = Wanted[tags[t]].key /\ requests[t][i].pid = i - 1
       /\ pc[t] = "done"
            => \/ /\ result[t].msg \in UpstreamErrors
                  /\ Len(requests[t]) = 1
               \/ /\ result[t].msg \notin UpstreamErrors
                  /\ source_data[t] = ConcatPages(requests[t])
                  /\ result[t].results
                       = FilteredList(ConcatPages(requests[t]),
                                      Wanted[tags[t]].positive, Wanted[tags[t]].negative)
                  /\ (result[t].kind = "str") = (result[t].results = <<>>)

\* A step in which a storage operation failed changes no row; a failed set is
\* followed by step 5 on the set that was to be written, a failed init_db or
\* prune by nothing the calls can see.
FailureFrame ==
  faults' # faults
    => /\ store' = store
       /\ \A t \in Tasks :
            /\ <<t, "set">> \in faults' \ faults
                 => /\ pc'[t] = "done"
                    /\ writes'[t] = writes[t]
                    /\ source_data'[t]
                         = IF pc[t] = "merge_set"
                             THEN MergeNew(newly_fetched_posts[t], source_data[t])
                             ELSE source_data[t]
                    /\ result'[t].kind \in {"str", "list", "tuple"}
            /\ <<t, "get">> \in faults' \ faults
                 => cache_response'[t] = None /\ pc'[t] = "full_fetch"
            /\ <<t, "init">> \in faults' \ faults => pc'[t] = pc[t]
       /\ (\E t \in Tasks : <<t, "init">> \in faults' \ faults)
            \/ <<0, "prune">> \in faults' \ faults
            => UNCHANGED <<store, now, queries, pc, locals>>

C21_NeverRaises ==
  \A t \in Tasks :
    pc[t] = "done" => result[t].kind \in {"str", "list", "tuple"}

(***************************************************************************)
(* C22: when the caller supplies the pagination override (pid_override     *)
(* and/or limit_override), the call bypasses the cache, no get and no set, *)
(* and makes exactly one upstream page request.  The calls that return the *)
(* bare list are calls with the override (lines 320-321).                  *)
(***************************************************************************)
C22_OverrideBypassesCache ==
  \A t \in Tasks :
    (pc[t] = "done" /\ result[t].kind = "list") =>
      /\ lookup[t] = [rows |-> <<>>, at |-> 0]
      /\ cache_response[t] = None
      /\ writes[t] = <<>>
      /\ Len(requests[t]) = 1

(***************************************************************************)
(* C23: every call, on the full and on the incremental path, issues at     *)
(* most MaxPages upstream requests and accumulates at most PageLimit *     *)
(* MaxPages newly fetched items.                                           *)
(***************************************************************************)
C23_BoundedFetch ==
  \A t \in Tasks :
    /\ page[t] < MaxPages
    /\ Len(requests[t]) <= MaxPages
    /\ Len(all_fetched_results[t]) <= PageLimit * MaxPages
    /\ Len(newly_fetched_posts[t]) <= PageLimit * MaxPages

\* A full fetch that went to the cap: MaxPages requests, each a full page.
C23_Witness ==
  \E t \in Tasks :
    /\ pc[t] = "done" /\ Miss(t)
    /\ Len(requests[t]) = MaxPages
    /\ Len(all_fetched_results[t]) = PageLimit * MaxPages

\* A 200 response whose list has fewer posts than the page size asked for.
ShortPage(response) ==
  /\ response.status = "200" /\ response.body = "list"
  /\ Len(response.data) < PageLimit

(***************************************************************************)
(* C24: in every fetch run, full or incremental, once a page returns fewer *)
(* items than the page size no further page is requested in that run.      *)
(***************************************************************************)
C24_ShortPageEndsRun ==
  \A t \in Tasks :
    \A i \in 1..Len(requests[t]) :
      ShortPage(requests[t][i].response) => i = Len(requests[t])

(***************************************************************************)
(* C25: for every raw tag string, no token is in both the positive and the *)
(* negative set of the parsed query, and neither set holds the empty       *)
(* token.                                                                  *)
(***************************************************************************)
C25_ParsedSetsDisjoint ==
  \A t \in Tasks :
    pc[t] # "idle" =>
      /\ original_positive_tags[t] \cap original_negative_tags[t] = {}
      /\ <<>> \notin original_positive_tags[t] \cup original_negative_tags[t]

\* What steps 1 and 3 make of each raw text, and its cache key under the
\* hardcoded alias table.
Parsed == [x \in TagInputs |-> _parse_tags(TagsToProcess(x))]
KeyOf == [x \in TagInputs |-> ApiTagsStr(Parsed[x].positive)]
TokensOf == [x \in TagInputs |-> Split(x)]

\* The raw texts that have the tokens of x in another order.
Reordered(x) ==
  LET toks == TokensOf[x]
      n == Len(toks)
  IN  {Join([i \in 1..n |-> toks[o[i]]]) : o \in Orders(1..n)}

(***************************************************************************)
(* C26: two tag strings that differ only in the order of their tokens (or  *)
(* in the positions of repeated tokens) get the same cache key.            *)
(***************************************************************************)
C26_KeyIgnoresTokenOrder ==
  \A t \in Tasks :
    (pc[t] # "idle" /\ aliases = tag_aliases) =>
      \A y \in Reordered(tags[t]) : KeyOf[y] = api_tags_str[t]

\* "B a" was given: its tokens come sorted and lowered in the key, which is
\* also the key of "a B".
C26_Witness ==
  \E t \in Tasks :
    /\ pc[t] # "idle" /\ aliases = tag_aliases
    /\ tags[t] = <<"B", " ", "a">>
    /\ api_tags_str[t] = <<"a", " ", "b">>
    /\ <<"a", " ", "B">> \in Reordered(tags[t])

\* The cache keys steps 1 to 3 can compute when given the cache key of the
\* call as the raw text.
Renormalized(t) ==
  CacheKeys(aliases, _parse_tags(TagsToProcess(api_tags_str[t])).positive)

\* The targets of the table are tags as _parse_tags produces them (lower
\* case, one token, no leading "-") and none of them is a key of the table.
CanonicalTargets(table) ==
  \A k \in DOMAIN table :
    /\ table[k] \notin DOMAIN table
    /\ Split(Lower(table[k])) = <<table[k]>>
    /\ ~StartsWith(table[k], <<"-">>)

C28_SafetyExclusion ==
  \A t \in Tasks :
    /\ pc[t] # "idle" => T_AI \in original_negative_tags[t]
    /\ \A i \in DOMAIN result[t].results : T_AI \notin ItemTags[result[t].results[i]]

\* The posts of the stored superset that each raw text accepts: those that
\* carry its positive tokens and none of its excluded ones.
Superset == <<Item(3), Item(2), Item(1)>>
Accepted ==
  [x \in TagInputs |-> FilteredList(Superset, Parsed[x].positive, Parsed[x].negative)]

(***************************************************************************)
(* C29: aliasing never affects which items are accepted: for a fixed       *)
(* superset and a fixed raw query the filtered result is the same under    *)
(* every alias table, the one the raw text's own positive and negative     *)
(* tags select.                                                            *)
(***************************************************************************)
C29_AliasesDoNotFilter ==
  \A t \in Tasks :
    pc[t] = "done" =>
      /\ cache_response[t].results = Superset
      /\ result[t].results = Accepted[tags[t]]
      /\ result[t].kind = "str" <=> Accepted[tags[t]] = <<>>

\* "B" under the table that aliases b to c: the key is "c", the posts
\* returned are those tagged b.
C29_Witness ==
  \E t \in Tasks :
    /\ pc[t] = "done"
    /\ aliases = (<<"b">> :> <<"c">>)
    /\ tags[t] = <<"B">>
    /\ api_tags_str[t] = <<"c">>
    /\ result[t].kind = "tuple"
    /\ result[t].results = <<Item(3), Item(2)>>

\* What a call asked cache_manager.set to store, in order.
StoredBy(t) ==
  [i \in 1..Len(writes[t]) |-> [tags |-> writes[t][i].tags, results |-> writes[t][i].results]]

\* The upstream answered the two calls alike: equal requests got equal answers.
SameUpstream(a, b) ==
  \A i \in 1..Len(requests[a]) :
    i <= Len(requests[b]) => requests[a][i].response = requests[b][i].response

\* Two finished calls with the same cache key and different exclusions that
\* looked up the same table at the same instant and met the same upstream.
TwinRuns(a, b) ==
  /\ pc[a] = "done" /\ pc[b] = "done"
  /\ api_tags_str[a] = api_tags_str[b]
  /\ original_negative_tags[a] # original_negative_tags[b]
  /\ lookup[a] = lookup[b]
  /\ SameUpstream(a, b)

(***************************************************************************)
(* C30: the cache stores the unfiltered result set: two queries with the   *)
(* same aliased positive tags and different negative tags, run from the    *)
(* same store state against the same upstream, make the same upstream      *)
(* requests and store the same rows.                                       *)
(***************************************************************************)
C30_StoreIgnoresExclusions ==
  \A a, b \in Workers :
    TwinRuns(a, b) =>
      /\ requests[a] = requests[b]
      /\ StoredBy(a) = StoredBy(b)
      /\ \A i \in 1..Len(writes[a]) : writes[a][i].at = writes[b][i].at

\* "a" and "a -c" refreshed the same stale entry with a page that holds a
\* post tagged c: the callers got different lists, the rows written are equal.
C30_Witness ==
  \E a, b \in Workers :
    /\ TwinRuns(a, b)
    /\ cache_response[a] # None
    /\ requests[a] # <<>>
    /\ writes[a] # <<>> /\ writes[b] # <<>>
    /\ result[a].results # result[b].results
    /\ Item(3) \in Range(writes[b][1].results)

(***************************************************************************)
(* C31: a 200 response whose body is an object holding the item array      *)
(* under "post" is unwrapped by the fetch path and handled like the bare   *)
(* array: its items (the new ones, on an incremental fetch) are            *)
(* accumulated, written to the cache and in the superset the call filters. *)
(***************************************************************************)
C31_WrappedHandledAsList ==
  \A t \in Tasks :
    pc[t] = "done" =>
      \A i \in DOMAIN requests[t] :
        LET response == requests[t][i].response
            posts == _parse_api_response(response)
        IN  response.body = "wrapped" =>
              \A k \in DOMAIN posts :
                (Miss(t) \/ IsNewPost(posts[k], LatestId(cache_response[t].results)))
                  => /\ posts[k] \in Range(source_data[t])
                     /\ writes[t] # <<>>
                     /\ posts[k] \in Range(writes[t][1].results)

\* A row written at ts is in the table.
RowOf(ts) == \E i \in DOMAIN store : store[i].timestamp = ts

\* The cog's task is inside prune_expired's DELETE.
Sweeping == call[3] = [op |-> "prune", at |-> "op_in"]

(***************************************************************************)
(* C32: with a fair pruning loop and no storage errors, an entry that no   *)
(* set rewrites is eventually deleted once now - timestamp exceeds         *)
(* cache_max_lifetime; the sweep runs again and again, delayed by the      *)
(* commands' cache operations but never blocked for ever.                  *)
(***************************************************************************)
C32_ExpiredEventuallyPruned ==
  /\ \A ts \in TimePoints :
       (RowOf(ts) /\ now - ts > cache_max_lifetime) ~> ~RowOf(ts)
  /\ []<>Sweeping

\* The sweep has deleted the expired row while a command is inside the
\* manager or waiting for its upstream.
C32_Witness ==
  /\ pruned # None
  /\ store = <<>>
  /\ \E t \in CommandTasks : call[t].at \in {"op_in", "op_wait", "upstream"}

\* The largest id among the cached results of the hit, 0 when there are none.
LatestKnownId(t) ==
  LET ids == {c.id : c \in Range(cache_response[t].results)}
  IN  IF ids = {} THEN 0 ELSE CHOOSE m \in ids : \A x \in ids : x <= m

\* A 200 answer with a non-empty list all of whose posts are newer than id.
AllNewPage(response, id) ==
  /\ response.status = "200" /\ response.body = "list"
  /\ response.data # <<>>
  /\ \A k \in DOMAIN response.data : response.data[k].id > id

(***************************************************************************)
(* C33: in an incremental fetch only the fetched items whose id exceeds    *)
(* the largest cached id (0 if none) are kept; page p+1 is requested only  *)
(* after page p was a 200 with a non-empty list of new items only and p+1  *)
(* is below the page cap, so the run stops at the first page that yields   *)
(* fewer new items than items returned.                                    *)
(***************************************************************************)
C33_IncrementalKeepsNewOnly ==
  \A t \in Tasks :
    StaleHit(t) =>
      LET reqs == requests[t]
          latest == LatestKnownId(t)
      IN  /\ newly_fetched_posts[t] =
                SelectSeq(ConcatPages(reqs), LAMBDA post : post.id > latest)
          /\ \A i \in DOMAIN reqs :
                /\ reqs[i].pid = i - 1
                /\ i < Len(reqs) => AllNewPage(reqs[i].response, latest) /\ i < MaxPages
          /\ pc[t] = "incremental_fetch" =>
                /\ page[t] = Len(reqs) /\ page[t] < MaxPages
                /\ reqs # <<>> => AllNewPage(reqs[Len(reqs)].response, latest)
          /\ pc[t] \in {"merge_set", "done"} =>
                /\ reqs # <<>>
                /\ \/ Len(reqs) = MaxPages
                   \/ ~AllNewPage(reqs[Len(reqs)].response, latest)

\* A page of new items only was followed by a page with an item already
\* cached: the second request was the last, the new items of both are kept.
C33_Witness ==
  \E t \in Tasks :
    /\ StaleHit(t) /\ pc[t] = "done"
    /\ LatestKnownId(t) = 1
    /\ Len(requests[t]) = 2
    /\ requests[t][1].response.data = <<Item(3)>>
    /\ requests[t][2].response.data = <<Item(2), Item(1)>>
    /\ newly_fetched_posts[t] = <<Item(3), Item(2)>>

(***************************************************************************)
(* C34: in every reachable state no stored cache entry holds two items     *)
(* with the same id, also when the upstream publishes between two page     *)
(* requests of a run, so that an item comes back on two consecutive pages. *)
(***************************************************************************)
C34_StoredEntriesDuplicateFree ==
  \A i \in DOMAIN store : NoDuplicateIds(json_loads(store[i].results))

\* The upstream's items that carry every tag of key.
Published(key) == {it \in Items : PositiveTags[key] \subseteq ItemTags[it]}

\* The answers of the run agree with an unchanging upstream that holds
\* Published(key): the listed items, page after page, are its newest ones in
\* descending id order with none left out.
FaithfulPages(t, key) ==
  LET shown == ConcatPages(requests[t])
  IN  \A i \in DOMAIN shown :
        /\ shown[i] \in Published(key)
        /\ Cardinality({it \in Published(key) : it.id > shown[i].id}) = i - 1

(***************************************************************************)
(* C35: whenever an incremental refresh writes a merged set, the entry     *)
(* written holds every upstream item matching the matched key whose id     *)
(* lies above the pre-refresh largest cached id and at most at the largest *)
(* id now stored, also when the run ended at the page cap or on a failed   *)
(* or malformed later page.                                                *)
(***************************************************************************)
C35_RefreshLeavesNoGap ==
  \A t \in Tasks :
    (StaleHit(t) /\ writes[t] # <<>> /\ FaithfulPages(t, cache_response[t].key))
      => LET written == writes[t][1].results
             stored_ids == {p.id : p \in Range(written)}
         IN  \A it \in Published(cache_response[t].key) :
               (it.id > LatestKnownId(t) /\ \E m \in stored_ids : it.id <= m)
                 => it.id \in stored_ids

\* a is the tail of b.
IsSuffix(a, b) ==
  /\ Len(a) <= Len(b)
  /\ SubSeq(b, Len(b) - Len(a) + 1, Len(b)) = a

\* This step is the write of an incremental refresh of call t.
RefreshWrites(t) == pc[t] = "merge_set" /\ pc'[t] = "done"

\* The list of row is the tail of the list the next state stores under the
\* same key.
KeptAsTail(row) ==
  \E j \in DOMAIN store' :
    /\ store'[j].tags = row.tags
    /\ IsSuffix(json_loads(row.results), json_loads(store'[j].results))

\* C36 as stated: whenever an incremental refresh writes, the list the entry
\* held just before the write is a suffix of the list it holds after it.
C36_PreviousListIsSuffix ==
  [][\A t \in DOMAIN pc :
       RefreshWrites(t) =>
         \A i \in DOMAIN store :
           store[i].tags = cache_response[t].key => KeptAsTail(store[i])]_vars

(***************************************************************************)
(* C36: whenever an incremental refresh writes, the result list the call   *)
(* read at its lookup is a suffix of the list it writes, and so is the     *)
(* list the entry held just before the write when the entry is still the   *)
(* row the call looked up (no other call wrote the key in between): the    *)
(* refresh itself never removes or reorders cached items.                  *)
(***************************************************************************)
C36_ReadListIsSuffix ==
  /\ [](\A t \in DOMAIN pc :
          (StaleHit(t) /\ writes[t] # <<>>)
            => IsSuffix(cache_response[t].results, writes[t][1].results))
  /\ [][\A t \in DOMAIN pc :
          RefreshWrites(t) =>
            \A i \in DOMAIN store :
              (store[i].tags = cache_response[t].key
                 /\ store[i] \in Range(lookup[t].rows))
                => KeptAsTail(store[i])]_vars

\* Two calls read "a" -> [1] stale; the first wrote new items in front of
\* it, the second then read nothing of that and wrote its own merge, which
\* still ends with the list it had looked up.
C36_Witness ==
  \E a, b \in DOMAIN pc :
    /\ a # b /\ pc[a] = "done" /\ pc[b] = "done"
    /\ StaleHit(a) /\ StaleHit(b)
    /\ cache_response[a].key = K_A /\ cache_response[b].key = K_A
    /\ cache_response[b].results = <<Item(1)>>
    /\ writes[a] # <<>> /\ writes[b] # <<>>
    /\ writes[a][1].seq < writes[b][1].seq
    /\ writes[a][1].results = <<Item(3), Item(2), Item(1)>>
    /\ writes[b][1].results = <<Item(2), Item(1)>>

(***************************************************************************)
(* Calls against an unchanging upstream that holds more items than one     *)
(* full fetch collects                                                     *)
(***************************************************************************)
Callers == {1, 2, 3}

\* What the upstream has published: Items, and above them one item fewer
\* than a full fetch collects at most (MaxPages pages of PageLimit items),
\* each tagged "a" only.
Catalogue ==
  Items \cup {[id |-> n, tags |-> <<"a">>] : n \in 4..(2 + MaxPages * PageLimit)}

\* The q=index listing for tags: the published items that carry every tag,
\* newest (highest id) first.
Listing(tags_str) ==
  LET asked == Range(Split(tags_str))
      hits == {it \in Catalogue : asked \subseteq Range(Split(it.tags))}
      n == Cardinality(hits)
  IN  [i \in 1..n |->
         CHOOSE it \in hits : Cardinality({o \in hits : o.id > it.id}) = i - 1]

\* Lines 256-264 and 190-198: the answer to limit=PageLimit, pid, tags.
UpstreamPage(tags_str, pid) ==
  LET all == Listing(tags_str)
      first == pid * PageLimit + 1
      last == IF first + PageLimit - 1 < Len(all) THEN first + PageLimit - 1 ELSE Len(all)
  IN  [status |-> "200", body |-> "list", data |-> SubSeq(all, first, last)]

\* A query with required tags "a" and "b", one with required tag "a" only,
\* and one made of an exclusion only.
ServeQueries == {<<"b", " ", "a">>, <<"a", " ", "-", "c">>, <<"-", "c">>}

\* The table is empty when the cog starts.
InitServe ==
  /\ store = <<>>
  /\ now = 0
  /\ aliases = tag_aliases
  /\ queries = 0
  /\ pc = [t \in Callers |-> "idle"]
  /\ tags = [t \in Callers |-> <<>>]
  /\ tags_to_process = [t \in Callers |-> <<>>]
  /\ original_positive_tags = [t \in Callers |-> {}]
  /\ original_negative_tags = [t \in Callers |-> {}]
  /\ api_tags_str = [t \in Callers |-> <<>>]
  /\ cache_response = [t \in Callers |-> None]
  /\ source_data = [t \in Callers |-> <<>>]
  /\ newly_fetched_posts = [t \in Callers |-> <<>>]
  /\ all_fetched_results = [t \in Callers |-> <<>>]
  /\ page = [t \in Callers |-> 0]
  /\ result = [t \in Callers |-> NoResult]
  /\ lookup = [t \in Callers |-> [rows |-> <<>>, at |-> 0]]
  /\ requests = [t \in Callers |-> <<>>]
  /\ writes = [t \in Callers |-> <<>>]
  /\ pruned = None
  /\ ManagerInit
  /\ ViewsInit

\* The commands run one after the other (a command starts when no other is
\* in progress); the clock and the pruning loop run in between.  No page of
\* an unchanging upstream holds an item newer than the cached ones, so an
\* incremental fetch ends at line 235 with nothing to merge.
NextServe ==
  \/ \E t \in Callers, tags_in \in ServeQueries :
       /\ \A u \in Callers : pc[u] \in {"idle", "done"}
       /\ StartQuery(t, tags_in, "str")
  \/ \E t \in Callers : CacheCheck(t)
  \/ \E t \in Callers :
       IncrementalFetchPage(t, UpstreamPage(IncrementalTags(t), page[t]))
  \/ \E t \in Callers : FullFetchPage(t, UpstreamPage(FullFetchTags(t), page[t]))
  \/ \E t \in Callers : FullSet(t)
  \/ ClockAdvance
  \/ PruneRun

SpecServe == InitServe /\ [][NextServe]_vars

\* The ids of the items call t returned.
ReturnedIds(t) == {p.id : p \in Range(result[t].results)}

\* The positive tags of key a are among those of key b, and b has more.
NarrowerKey(a, b) ==
  /\ Range(Split(a)) \subseteq Range(Split(b))
  /\ Range(Split(a)) # Range(Split(b))

(***************************************************************************)
(* C37: with an unchanging upstream and no aliases, a request answered     *)
(* from a cached entry with a narrower key (the empty key included)        *)
(* returns the same set of items as the same request run as a cache miss   *)
(* with a full fetch of its own key.                                       *)
(***************************************************************************)
C37_SubsetServeEqualsFetch ==
  \A a, b \in Callers :
    (/\ pc[a] = "done" /\ pc[b] = "done"
     /\ tags[a] = tags[b]
     /\ Miss(a) /\ Hit(b)
     /\ NarrowerKey(cache_response[b].key, api_tags_str[b]))
      => ReturnedIds(a) = ReturnedIds(b)

(***************************************************************************)
(* Commands from different kinds of channel on an NSFW site                *)
(***************************************************************************)
\* Where each command comes from: call 1 from a channel that is neither an
\* age-restricted text channel nor a DM, call 2 from an age-restricted
\* channel, call 3 is an internal call that passes a str.
ChannelOf == <<"other_channel", "nsfw_channel", "str">>

\* Queries without rating:safe, with it as a required tag, and with it as
\* an excluded tag.
GateQueries ==
  { <<"a">>,
    <<"a", " ">> \o RATING_SAFE,
    <<"a", " ", "-">> \o RATING_SAFE }

NextGate ==
  \/ \E t \in Callers, tags_in \in GateQueries :
       /\ \A u \in Callers : pc[u] \in {"idle", "done"}
       /\ StartQuery(t, tags_in, ChannelOf[t])
  \/ \E t \in Callers : CacheCheck(t)
  \/ \E t \in Callers :
       IncrementalFetchPage(t, UpstreamPage(IncrementalTags(t), page[t]))
  \/ \E t \in Callers : FullFetchPage(t, UpstreamPage(FullFetchTags(t), page[t]))
  \/ \E t \in Callers : FullSet(t)
  \/ ClockAdvance
  \/ PruneRun

SpecGate == InitServe /\ [][NextGate]_vars

\* The required tags of each query.
GatePositive == [q \in GateQueries |-> _parse_tags(TagsToProcess(q)).positive]

(***************************************************************************)
(* C38: on an NSFW site a query from a channel that is neither an          *)
(* age-restricted text channel nor a DM goes on to return items only if    *)
(* rating:safe is one of its required tags; otherwise it returns the       *)
(* gating message with no cache read, upstream request or cache write.     *)
(***************************************************************************)
C38_GateNeedsRequiredSafeTag ==
  \A t \in Callers :
    (/\ pc[t] # "idle"
     /\ is_nsfw_site /\ ChannelOf[t] = "other_channel"
     /\ RATING_SAFE \notin GatePositive[tags[t]])
      => /\ pc[t] = "done"
         /\ result[t] = ErrorStr("nsfw_only")
         /\ lookup[t] = [rows |-> <<>>, at |-> 0] /\ cache_response[t] = None
         /\ requests[t] = <<>>
         /\ writes[t] = <<>>

(***************************************************************************)
(* User settings and the views on a command's message                      *)
(***************************************************************************)
MaxResults == 3

Users == {1, 2}

\* An Optional[bool] argument.
OptionalBool == {"None", "True", "False"}

\* What sqlite keeps for a column: 1, 0, or NULL when no value was given.
Column(arg) == CASE arg = "True" -> "1" [] arg = "False" -> "0" [] OTHER -> "NULL"

\* bool(value) of what a SELECT gives back (1, 0 or None).
Truthy(value) == value = "1"

\* UserConfigManager.set_config: nothing without a value; otherwise INSERT
\* the given columns, and on a row of that user UPDATE the given columns.
set_config(table, user_id, default_ephemeral, allow_others_to_use_buttons) ==
  IF default_ephemeral = "None" /\ allow_others_to_use_buttons = "None" THEN table
  ELSE IF \A row \in table : row.user_id # user_id
    THEN table \cup {[user_id |-> user_id,
                      default_ephemeral |-> Column(default_ephemeral),
                      allow_others_to_use_buttons |-> Column(allow_others_to_use_buttons)]}
    ELSE {IF row.user_id # user_id THEN row
          ELSE [user_id |-> user_id,
                default_ephemeral |->
                  IF default_ephemeral = "None" THEN row.default_ephemeral
                  ELSE Column(default_ephemeral),
                allow_others_to_use_buttons |->
                  IF allow_others_to_use_buttons = "None"
                    THEN row.allow_others_to_use_buttons
                    ELSE Column(allow_others_to_use_buttons)] : row \in table}

\* UserConfigManager.get_config: a dict (a set of key-value pairs) with both
\* keys when the user has a row, the empty dict otherwise.
get_config(table, user_id) ==
  UNION {{<<"default_ephemeral", row.default_ephemeral>>,
          <<"allow_others_to_use_buttons", row.allow_others_to_use_buttons>>} :
         row \in {r \in table : r.user_id = user_id}}

\* dict.get(key, default).
DictGet(dict, key, default) ==
  IF \E kv \in dict : kv[1] = key
    THEN (CHOOSE kv \in dict : kv[1] = key)[2]
    ELSE default

\* interaction_check of GelbooruButtons and of BrowseView: whether user may
\* use the buttons of a view owned by owner.
interaction_check(table, owner, user) ==
  LET config == get_config(table, owner)
      allow_others == DictGet(config, "allow_others_to_use_buttons", "1")
  IN  ~(~Truthy(allow_others) /\ user # owner)

\* The result lists a command hands to its view: up to MaxResults distinct
\* items, newest first.
ResultLists ==
  UNION { {r \in [1..n -> Items] : \A i, j \in 1..n : i < j => r[i].id > r[j].id} :
          n \in 1..MaxResults }

\* _refresh_container: the container built from all_results[current_index]
\* (0-based), labelled "Result index+1/len".
Refreshed(results, index) ==
  [label |-> index + 1, of |-> Len(results), result |-> results[index + 1]]

\* _update_container of GelbooruButtons: built from a result, no position.
Updated(post) == [label |-> 0, of |-> 0, result |-> post]

\* The text typed into GoToModal.page_num: one character (min_length 1,
\* max_length len(str(max_pages)) = 1).
PageTexts == {<<c>> : c \in {"0", "1", "2", "3", "4", "x"}}

\* int(text): the number, or ValueError (<<>>) for a text that is no number.
ParseInt(text) ==
  LET digit(c) == CASE c = "0" -> <<0>> [] c = "1" -> <<1>> [] c = "2" -> <<2>>
                    [] c = "3" -> <<3>> [] c = "4" -> <<4>> [] OTHER -> <<>>
  IN  digit(text[1])

\* /config of SettingsCog: without arguments it shows the settings, otherwise
\* it calls set_config.
ConfigCommand(user, default_ephemeral, allow_others_to_use_buttons) ==
  /\ user_config' = set_config(user_config, user, default_ephemeral,
                               allow_others_to_use_buttons)
  /\ supplied' = IF allow_others_to_use_buttons # "None"
                   THEN supplied \cup {user} ELSE supplied
  /\ UNCHANGED <<view, original_interaction_user_id, all_results, current_index,
                 container, modal, message, allowed>>
  /\ UNCHANGED <<coordinator, manager>>

\* _slash_command_logic with a tuple response: a GelbooruButtons view whose
\* container shows random.choice(all_results).
SlashCommand(user, results) ==
  /\ view = "none"
  /\ view' = "buttons"
  /\ original_interaction_user_id' = user
  /\ all_results' = results
  /\ current_index' = 0
  /\ \E k \in DOMAIN results :
       /\ container' = Updated(results[k])
       /\ message' = Updated(results[k])
  /\ UNCHANGED <<user_config, supplied, modal, allowed>>
  /\ UNCHANGED <<coordinator, manager>>

\* _browse_slash_command_logic with a non-empty result list: a BrowseView at
\* index 0.
BrowseCommand(user, results) ==
  /\ view = "none"
  /\ view' = "browse"
  /\ original_interaction_user_id' = user
  /\ all_results' = results
  /\ current_index' = 0
  /\ container' = Refreshed(results, 0)
  /\ message' = Refreshed(results, 0)
  /\ UNCHANGED <<user_config, supplied, modal, allowed>>
  /\ UNCHANGED <<coordinator, manager>>

\* A button of the view is used by user: interaction_check runs first and
\* the callback only when it returns True.
Pressed(user, kind, callback) ==
  /\ view = kind
  /\ LET ok == interaction_check(user_config, original_interaction_user_id, user)
     IN  /\ allowed' = [owner |-> original_interaction_user_id, user |-> user, ok |-> ok]
         /\ IF ok THEN callback
            ELSE UNCHANGED <<view, original_interaction_user_id, all_results,
                             current_index, container, modal, message>>
  /\ UNCHANGED <<user_config, supplied>>
  /\ UNCHANGED <<coordinator, manager>>

\* _update_message: rebuild the container, then edit the message.
UpdateMessage(index) ==
  /\ current_index' = index
  /\ container' = Refreshed(all_results, index)
  /\ message' = Refreshed(all_results, index)
  /\ UNCHANGED <<view, original_interaction_user_id, all_results, modal>>

\* GelbooruButtons.new_random.
new_random(user) ==
  Pressed(user, "buttons",
          /\ \E k \in DOMAIN all_results :
               /\ container' = Updated(all_results[k])
               /\ message' = Updated(all_results[k])
          /\ UNCHANGED <<view, original_interaction_user_id, all_results,
                         current_index, modal>>)

\* GelbooruButtons.browse_results: a BrowseView for the user of the button.
browse_results(user) ==
  Pressed(user, "buttons",
          /\ view' = "browse"
          /\ original_interaction_user_id' = user
          /\ current_index' = 0
          /\ container' = Refreshed(all_results, 0)
          /\ message' = Refreshed(all_results, 0)
          /\ UNCHANGED <<all_results, modal>>)

\* BrowseView.first, previous, next_result, last.
first(user) == Pressed(user, "browse", UpdateMessage(0))

previous(user) ==
  Pressed(user, "browse",
          UpdateMessage((current_index - 1 + Len(all_results)) % Len(all_results)))

next_result(user) ==
  Pressed(user, "browse", UpdateMessage((current_index + 1) % Len(all_results)))

last(user) == Pressed(user, "browse", UpdateMessage(Len(all_results) - 1))

\* BrowseView.goto up to "await modal.wait()": a GoToModal is shown.  One
\* Go To is followed at a time.
goto(user) ==
  /\ modal = None
  /\ Pressed(user, "browse",
             /\ modal' = [max_pages |-> Len(all_results), value |-> <<>>,
                          stopped |-> FALSE]
             /\ UNCHANGED <<view, original_interaction_user_id, all_results,
                            current_index, container, message>>)

\* GoToModal.on_submit; the modal stops after it.
on_submit(text) ==
  /\ modal # None /\ ~modal.stopped
  /\ LET num == ParseInt(text)
     IN  modal' = [modal EXCEPT
                     !.value = IF num # <<>> /\ 1 <= num[1] /\ num[1] <= modal.max_pages
                                 THEN num ELSE @,
                     !.stopped = TRUE]
  /\ UNCHANGED <<user_config, view, supplied, original_interaction_user_id, all_results,
                 current_index, container, message, allowed>>
  /\ UNCHANGED <<coordinator, manager>>

\* The modal is dismissed or times out: wait() returns with value None.
ModalTimeout ==
  /\ modal # None /\ ~modal.stopped
  /\ modal' = [modal EXCEPT !.stopped = TRUE]
  /\ UNCHANGED <<user_config, view, supplied, original_interaction_user_id, all_results,
                 current_index, container, message, allowed>>
  /\ UNCHANGED <<coordinator, manager>>

\* BrowseView.goto after "await modal.wait()", lines 549-553: the index is
\* set and the message edited with the view as it is.
GotoResumes ==
  /\ modal # None /\ modal.stopped
  /\ modal' = None
  /\ IF modal.value # <<>>
       THEN /\ current_index' = modal.value[1] - 1
            /\ message' = container
       ELSE UNCHANGED <<current_index, message>>
  /\ UNCHANGED <<user_config, view, supplied, original_interaction_user_id, all_results,
                 container, allowed>>
  /\ UNCHANGED <<coordinator, manager>>

\* BrowseView.back_to_main: a GelbooruButtons view for the user of the
\* button, showing a random result.  Followed while no Go To is pending.
back_to_main(user) ==
  /\ modal = None
  /\ Pressed(user, "browse",
             /\ view' = "buttons"
             /\ original_interaction_user_id' = user
             /\ \E k \in DOMAIN all_results :
                  /\ container' = Updated(all_results[k])
                  /\ message' = Updated(all_results[k])
             /\ UNCHANGED <<all_results, current_index, modal>>)

InitView == InitFrom({[rows |-> <<>>, at |-> 0]})

NextView ==
  \/ \E user \in Users, de, ao \in OptionalBool : ConfigCommand(user, de, ao)
  \/ \E user \in Users, results \in ResultLists : SlashCommand(user, results)
  \/ \E user \in Users, results \in ResultLists : BrowseCommand(user, results)
  \/ \E user \in Users : new_random(user)
  \/ \E user \in Users : browse_results(user)
  \/ \E user \in Users : first(user)
  \/ \E user \in Users : previous(user)
  \/ \E user \in Users : next_result(user)
  \/ \E user \in Users : last(user)
  \/ \E user \in Users : goto(user)
  \/ \E text \in PageTexts : on_submit(text)
  \/ ModalTimeout
  \/ GotoResumes
  \/ \E user \in Users : back_to_main(user)

SpecView == InitView /\ [][NextView]_vars

(***************************************************************************)
(* C39: after every BrowseView navigation action (First, Previous, Next,   *)
(* Last, Go To) on a non-empty result list, current_index lies in          *)
(* 0..len(all_results)-1 and the container the message displays is the one *)
(* built from all_results[current_index].                                  *)
(***************************************************************************)
C39_DisplayedIsCurrent ==
  view = "browse" =>
    /\ current_index \in 0..(Len(all_results) - 1)
    /\ message = Refreshed(all_results, current_index)

(***************************************************************************)
(* C40: allow_others_to_use_buttons defaults to true when not set: as long *)
(* as the owner of a view never passed allow_others_to_use_buttons to      *)
(* set_config (also when the owner set default_ephemeral only),            *)
(* interaction_check lets every other user use the buttons.                *)
(***************************************************************************)
C40_OthersAllowedByDefault ==
  (allowed # None /\ allowed.user # allowed.owner /\ allowed.owner \notin supplied)
    => allowed.ok

====
